---- MODULE Spec2Model ----
(***************************************************************************)
(* Sparrow: an in-memory key-value store behind a RESP wire protocol.      *)
(*                                                                         *)
(* The module models the wire codec (sparrow-resp), the command layer and  *)
(* the Nest (sparrow/src/core), the Engine loop and the async TCP server   *)
(* (accept_loop, connection_loop).                                         *)
(*                                                                         *)
(* Byte strings are sequences of one-character strings.  Text that the     *)
(* program only copies (the fixed parts of its error messages) is kept as  *)
(* one element of such a sequence.                                         *)
(***************************************************************************)
EXTENDS Integers, Sequences, FiniteSets, TLC

(***************************************************************************)
(* Bytes                                                                   *)
(***************************************************************************)
CR == "\r"
LF == "\n"
CRLF_BYTES == <<CR, LF>>

ARRAY_FIRST_BYTE == "*"
BULK_STRING_FIRST_BYTE == "$"
ERROR_FIRST_BYTE == "-"
INTEGER_FIRST_BYTE == ":"
SIMPLE_STRING_FIRST_BYTE == "+"

\* A byte that is no valid UTF-8 on its own (0xFF).
BAD_BYTE == "#FF"

\* a maximum that is one too large
RESPONSE_MAX_SIZE_PLUS_ONE == 512 * 1024 * 1024 + 1

RESPONSE_MAX_SIZE == 536870912

Digits == <<"0", "1", "2", "3", "4", "5", "6", "7", "8", "9">>

IsDigit(ch) == \E i \in 1..10 : Digits[i] = ch

DigitVal(ch) == (CHOOSE i \in 1..10 : Digits[i] = ch) - 1

\* The decimal value of a byte, as format!("{}", u8) prints it; the model
\* needs it for CR and LF and the few bytes its inputs end lines with.
ByteVal(ch) ==
  CASE ch = CR -> 13
    [] ch = LF -> 10
    [] ch = " " -> 32
    [] ch = "a" -> 97
    [] ch = "x" -> 120
    [] ch = "b" -> 98
    [] ch = "y" -> 121
    [] ch = "1" -> 49
    [] OTHER -> 63

RECURSIVE NatToDec(_)
NatToDec(n) ==
  IF n < 10 THEN <<Digits[n + 1]>>
  ELSE NatToDec(n \div 10) \o <<Digits[(n % 10) + 1]>>

\* i64::to_string / usize::to_string
ToDec(n) == IF n < 0 THEN <<"-">> \o NatToDec(0 - n) ELSE NatToDec(n)

(***************************************************************************)
(* Data: the RESP value.  Every variant is a record of the same shape so   *)
(* that any two values compare; the fields a variant does not use are      *)
(* empty.                                                                  *)
(***************************************************************************)
Array(items) == [tag |-> "Array", str |-> <<>>, int |-> 0, items |-> items]
BulkString(s) == [tag |-> "BulkString", str |-> s, int |-> 0, items |-> <<>>]
Error(msg) == [tag |-> "Error", str |-> msg, int |-> 0, items |-> <<>>]
Integer(n) == [tag |-> "Integer", str |-> <<>>, int |-> n, items |-> <<>>]
Null == [tag |-> "Null", str |-> <<>>, int |-> 0, items |-> <<>>]
NullArray == [tag |-> "NullArray", str |-> <<>>, int |-> 0, items |-> <<>>]
SimpleString(s) == [tag |-> "SimpleString", str |-> s, int |-> 0, items |-> <<>>]

(***************************************************************************)
(* encode                                                                  *)
(***************************************************************************)
RECURSIVE encode_inner(_)
RECURSIVE EncodeItems(_, _)

\* the items written last to first
RECURSIVE EncodeItemsReversed(_, _)
EncodeItemsReversed(items, i) ==
  IF i > Len(items) THEN <<>>
  ELSE EncodeItemsReversed(items, i + 1) \o encode_inner(items[i])

EncodeItems(items, i) ==
  IF i > Len(items) THEN <<>>
  ELSE encode_inner(items[i]) \o EncodeItems(items, i + 1)

encode_inner(data) ==
  CASE data.tag = "Array" ->
         <<ARRAY_FIRST_BYTE>> \o ToDec(Len(data.items)) \o CRLF_BYTES
           \o EncodeItems(data.items, 1)
    [] data.tag = "BulkString" ->
         <<BULK_STRING_FIRST_BYTE>> \o ToDec(Len(data.str)) \o CRLF_BYTES
           \o data.str \o CRLF_BYTES
    [] data.tag = "Error" -> <<ERROR_FIRST_BYTE>> \o data.str \o CRLF_BYTES
    [] data.tag = "Integer" -> <<INTEGER_FIRST_BYTE>> \o ToDec(data.int) \o CRLF_BYTES
    [] data.tag = "Null" -> <<"$", "-", "1", CR, LF>>
    [] data.tag = "NullArray" -> <<"*", "-", "1", CR, LF>>
    [] data.tag = "SimpleString" ->
         <<SIMPLE_STRING_FIRST_BYTE>> \o data.str \o CRLF_BYTES

encode(data) == encode_inner(data)

(***************************************************************************)
(* decode                                                                  *)
(*                                                                         *)
(* A reader is the bytes received and not yet consumed (stream) and        *)
(* whether the peer has closed its side (eof).  A decode result is         *)
(*   kind  "Ok", an io::ErrorKind ("BrokenPipe", "InvalidInput",           *)
(*         "InvalidData", "UnexpectedEof"), or "Pending" when the read     *)
(*         is suspended waiting for bytes the peer has not sent yet,       *)
(*   data  the decoded value (kind "Ok"),                                  *)
(*   msg   the error's text (an error kind),                               *)
(*   rest  the bytes left in the reader.                                   *)
(***************************************************************************)
DecOk(data, rest) == [kind |-> "Ok", data |-> data, msg |-> <<>>, rest |-> rest]
\* an error whose kind is lost: every failure is InvalidData
DecErrOneKind(kind, msg, rest) ==
  [kind |-> "InvalidData", data |-> Null, msg |-> msg, rest |-> rest]

DecErr(kind, msg, rest) == [kind |-> kind, data |-> Null, msg |-> msg, rest |-> rest]
DecPending(rest) == [kind |-> "Pending", data |-> Null, msg |-> <<>>, rest |-> rest]

ErrorKinds == {"BrokenPipe", "InvalidInput", "InvalidData", "UnexpectedEof"}

SubSeqFrom(s, i) == IF i > Len(s) THEN <<>> ELSE SubSeq(s, i, Len(s))

\* an is_crlf that accepts any two bytes
is_crlf_any(x, y) == TRUE

is_crlf(x, y) == x = CR /\ y = LF

\* String::from_utf8: the model's only invalid byte is BAD_BYTE.
parse_string(bytes) ==
  IF \E i \in 1..Len(bytes) : bytes[i] = BAD_BYTE
  THEN [ok |-> FALSE, str |-> <<>>,
        msg |-> <<"Cannot parse data: invalid utf-8 sequence">>]
  ELSE [ok |-> TRUE, str |-> bytes, msg |-> <<>>]

\* TLC's integers are 32 bits wide: a digit string longer than MaxDigits is
\* outside the model and is reported as such, never parsed to a wrong value.
MaxDigits == 9

RECURSIVE DigitsVal(_, _)
DigitsVal(ds, acc) ==
  IF ds = <<>> THEN acc
  ELSE DigitsVal(Tail(ds), acc * 10 + DigitVal(Head(ds)))

\* str::parse::<i64>: an optional sign, then one or more decimal digits.
parse_integer(bytes) ==
  LET s == parse_string(bytes)
      neg == bytes # <<>> /\ Head(bytes) = "-"
      signed == bytes # <<>> /\ Head(bytes) \in {"-", "+"}
      ds == IF signed THEN Tail(bytes) ELSE bytes
  IN  IF ~s.ok THEN [ok |-> FALSE, val |-> 0, msg |-> s.msg]
      ELSE IF bytes = <<>>
        THEN [ok |-> FALSE, val |-> 0,
              msg |-> <<"Cannot parse data: cannot parse integer from empty string">>]
      ELSE IF ds = <<>> \/ \E i \in 1..Len(ds) : ~IsDigit(ds[i])
        THEN [ok |-> FALSE, val |-> 0,
              msg |-> <<"Cannot parse data: invalid digit found in string">>]
      ELSE IF Len(ds) > MaxDigits
        THEN [ok |-> FALSE, val |-> 0, msg |-> <<"outside the model">>]
      ELSE [ok |-> TRUE, msg |-> <<>>,
            val |-> IF neg THEN 0 - DigitsVal(ds, 0) ELSE DigitsVal(ds, 0)]

\* The index of the first LF of s, 0 when there is none.
FirstLF(s) ==
  IF \E i \in 1..Len(s) : s[i] = LF
  THEN CHOOSE i \in 1..Len(s) : s[i] = LF /\ \A j \in 1..(i - 1) : s[j] # LF
  ELSE 0

TooLargeMsg(n) ==
  <<"Data is too large: ">> \o ToDec(n) \o <<" > ">> \o ToDec(RESPONSE_MAX_SIZE)

RECURSIVE decode_inner(_, _)
RECURSIVE DecodeItems(_, _, _, _)
RECURSIVE DecodeItemsReversed(_, _, _, _)

\* an Array loop that puts each decoded value in front of the earlier ones
DecodeItemsReversed(stream, eof, n, array) ==
  IF n = 0 THEN [kind |-> "Ok", data |-> Array(array), msg |-> <<>>, rest |-> stream]
  ELSE LET r == decode_inner(stream, eof)
       IN  IF r.kind # "Ok" THEN r
           ELSE DecodeItemsReversed(r.rest, eof, n - 1, <<r.data>> \o array)

\* The loop of the Array branch: n more values, the first failure returned.
DecodeItems(stream, eof, n, array) ==
  IF n = 0 THEN DecOk(Array(array), stream)
  ELSE LET r == decode_inner(stream, eof)
       IN  IF r.kind # "Ok" THEN r
           ELSE DecodeItems(r.rest, eof, n - 1, Append(array, r.data))

decode_inner(stream, eof) ==
  LET lf == FirstLF(stream)
      buff == IF lf = 0 THEN stream ELSE SubSeq(stream, 1, lf)
      rest == IF lf = 0 THEN <<>> ELSE SubSeqFrom(stream, lf + 1)
      len == Len(buff)
      bytes == SubSeq(buff, 2, len - 2)
      head == buff[1]
  IN  IF lf = 0 /\ ~eof THEN DecPending(stream)
      ELSE IF buff = <<>> THEN DecErr("BrokenPipe", <<"Broken pipe">>, rest)
      ELSE IF len < 3
        THEN DecErr("InvalidInput", <<"Input is too short: ">> \o ToDec(len), rest)
      ELSE IF ~is_crlf(buff[len - 1], buff[len])
        THEN DecErr("InvalidInput",
                    <<"Invalid CRLF: ">> \o ToDec(ByteVal(buff[len - 1]))
                      \o ToDec(ByteVal(buff[len])), rest)
      ELSE IF head = ARRAY_FIRST_BYTE THEN
        LET n == parse_integer(bytes)
        IN  IF ~n.ok THEN DecErr("InvalidData", n.msg, rest)
            ELSE IF n.val = -1 THEN DecOk(NullArray, rest)
            ELSE IF n.val < -1 \/ n.val > RESPONSE_MAX_SIZE
              THEN DecErr("InvalidData", TooLargeMsg(n.val), rest)
            ELSE DecodeItems(rest, eof, n.val, <<>>)
      ELSE IF head = BULK_STRING_FIRST_BYTE THEN
        LET n == parse_integer(bytes)
        IN  IF ~n.ok THEN DecErr("InvalidData", n.msg, rest)
            ELSE IF n.val = -1 THEN DecOk(Null, rest)
            ELSE IF n.val < -1 \/ n.val > RESPONSE_MAX_SIZE
              THEN DecErr("InvalidData", TooLargeMsg(n.val), rest)
            ELSE IF Len(rest) < n.val + 2
              THEN IF eof
                   THEN DecErr("UnexpectedEof", <<"failed to fill whole buffer">>, <<>>)
                   ELSE DecPending(stream)
            ELSE LET string_buff == SubSeq(rest, 1, n.val + 2)
                     after == SubSeqFrom(rest, n.val + 3)
                     s == parse_string(SubSeq(string_buff, 1, n.val))
                 IN  IF ~is_crlf(string_buff[n.val + 1], string_buff[n.val + 2])
                       \* the message prints the header line's last two bytes
                       THEN DecErr("InvalidInput",
                                   <<"Invalid CRLF: ">> \o ToDec(ByteVal(buff[len - 1]))
                                     \o ToDec(ByteVal(buff[len])), after)
                     ELSE IF ~s.ok THEN DecErr("InvalidData", s.msg, after)
                     ELSE DecOk(BulkString(s.str), after)
      ELSE IF head = ERROR_FIRST_BYTE THEN
        LET s == parse_string(bytes)
        IN  IF s.ok THEN DecOk(Error(s.str), rest) ELSE DecErr("InvalidData", s.msg, rest)
      ELSE IF head = INTEGER_FIRST_BYTE THEN
        LET n == parse_integer(bytes)
        IN  IF n.ok THEN DecOk(Integer(n.val), rest) ELSE DecErr("InvalidData", n.msg, rest)
      ELSE IF head = SIMPLE_STRING_FIRST_BYTE THEN
        LET s == parse_string(bytes)
        IN  IF s.ok THEN DecOk(SimpleString(s.str), rest)
            ELSE DecErr("InvalidData", s.msg, rest)
      ELSE DecErr("InvalidInput",
                  <<"Unknown head character: Ok(\"", head, "\")">>, rest)

\* a decode that leaves nothing in the reader: what was buffered after the
\* frame is lost
decodeDrain(stream, eof) == [decode_inner(stream, eof) EXCEPT !.rest = <<>>]

decode(stream, eof) == decode_inner(stream, eof)

(***************************************************************************)
(* Egg and Nest.  An Egg's created_at is left out: no command reads it     *)
(* and Egg's equality ignores it.                                          *)
(***************************************************************************)
Egg(key, value) == [key |-> key, value |-> value]

NoEgg == [some |-> FALSE, key |-> <<>>, value |-> <<>>]
SomeEgg(egg) == [some |-> TRUE, key |-> egg.key, value |-> egg.value]

\* Nest::new: an empty map
NestNew == [k \in {} |-> Egg(<<>>, <<>>)]

\* an insert into a map made anew: the other entries are gone
NestInsertAlone(nest, egg) == [k \in {egg.key} |-> egg]

\* Nest::insert that keeps the entry of a key already present
NestInsertKeep(nest, egg) ==
  [k \in (DOMAIN nest) \cup {egg.key} |->
     IF k \in DOMAIN nest THEN nest[k] ELSE egg]

\* an insert that files the Egg under its value
NestInsertByValue(nest, egg) ==
  [k \in (DOMAIN nest) \cup {egg.value} |-> IF k = egg.value THEN egg ELSE nest[k]]

\* Nest::insert: the map afterwards (HashMap::insert replaces the entry)
NestInsert(nest, egg) ==
  [k \in (DOMAIN nest) \cup {egg.key} |-> IF k = egg.key THEN egg ELSE nest[k]]

\* Nest::get
NestGet(nest, key) == IF key \in DOMAIN nest THEN SomeEgg(nest[key]) ELSE NoEgg

\* a pop that leaves the Egg in the map
NestPopKeep(nest, key) == nest

\* Nest::pop: the map afterwards (HashMap::remove)
NestPop(nest, key) == [k \in (DOMAIN nest) \ {key} |-> nest[k]]

\* Nest::rem, which RemCommand calls: delete the entry if present.
NestRem(nest, key) == [k \in (DOMAIN nest) \ {key} |-> nest[k]]

(***************************************************************************)
(* Commands                                                                *)
(***************************************************************************)
GET == <<"G", "E", "T">>
SET == <<"S", "E", "T">>
REM == <<"R", "E", "M">>

Command(name, key, value) == [name |-> name, key |-> key, value |-> value]

ParseOk(cmd) == [ok |-> TRUE, cmd |-> cmd, msg |-> <<>>]
ParseErr(msg) == [ok |-> FALSE, cmd |-> Command(<<>>, <<>>, <<>>), msg |-> msg]

\* str::split(' '): the pieces between single spaces, empty pieces included.
RECURSIVE Split(_, _)
Split(s, piece) ==
  IF s = <<>> THEN <<piece>>
  ELSE IF Head(s) = " " THEN <<piece>> \o Split(Tail(s), <<>>)
  ELSE Split(Tail(s), Append(piece, Head(s)))

WrongArgs(name, expected, n) ==
  <<"Cannot parse ">> \o name
    \o <<" command arguments: Wrong number of arguments. Expected ">>
    \o ToDec(expected) \o <<", got ">> \o ToDec(n) \o <<".">>

\* a GetCommand::new that takes a missing key for the empty key
GetCommandNewLenient(args) ==
  IF Len(args) >= 1 THEN ParseOk(Command(GET, args[1], <<>>))
  ELSE ParseOk(Command(GET, <<>>, <<>>))

\* GetCommand::new
GetCommandNew(args) ==
  IF Len(args) = 1 THEN ParseOk(Command(GET, args[1], <<>>))
  ELSE ParseErr(WrongArgs(GET, 1, Len(args)))

\* SetCommand::new
SetCommandNew(args) ==
  IF Len(args) = 2 THEN ParseOk(Command(SET, args[1], args[2]))
  ELSE ParseErr(WrongArgs(SET, 2, Len(args)))

\* RemCommand::new
RemCommandNew(args) ==
  IF Len(args) = 1 THEN ParseOk(Command(REM, args[1], <<>>))
  ELSE ParseErr(WrongArgs(REM, 1, Len(args)))

\* a parse_string_command that takes the verbs in lower case as well
parse_string_command_anycase(input) ==
  LET inputs == Split(input, <<>>)
      name == inputs[1]
      args == Tail(inputs)
  IN  CASE name \in {GET, <<"g", "e", "t">>} -> GetCommandNew(args)
        [] name \in {SET, <<"s", "e", "t">>} -> SetCommandNew(args)
        [] name \in {REM, <<"r", "e", "m">>} -> RemCommandNew(args)
        [] OTHER -> ParseErr(<<"Command not found: ">> \o name)

parse_string_command(input) ==
  LET inputs == Split(input, <<>>)
      name == inputs[1]
      args == Tail(inputs)
  IN  CASE name = GET -> GetCommandNew(args)
        [] name = SET -> SetCommandNew(args)
        [] name = REM -> RemCommandNew(args)
        [] OTHER -> ParseErr(<<"Command not found: ">> \o name)

parse_command(input) ==
  IF input.tag = "BulkString" THEN parse_string_command(input.str)
  ELSE ParseErr(<<"Cannot parse command: data is not a bulk string">>)

OK == SimpleString(<<"O", "K">>)

\* a GET that returns the value as a SimpleString
GetExecuteSimple(cmd, nest) ==
  LET egg == NestGet(nest, cmd.key)
  IN  [data |-> IF egg.some THEN SimpleString(egg.value) ELSE Null, nest |-> nest]

\* a GET that answers an absent key with an Error
GetExecuteNotFound(cmd, nest) ==
  LET egg == NestGet(nest, cmd.key)
  IN  [data |-> IF egg.some THEN BulkString(egg.value)
                ELSE Error(<<"Key not found">>),
       nest |-> nest]

\* GetCommand::execute
GetExecute(cmd, nest) ==
  LET egg == NestGet(nest, cmd.key)
  IN  [data |-> IF egg.some THEN BulkString(egg.value) ELSE Null, nest |-> nest]

\* SetCommand::execute
SetExecute(cmd, nest) ==
  [data |-> OK, nest |-> NestInsert(nest, Egg(cmd.key, cmd.value))]

\* a REM that answers OK only when the key was there
RemExecuteStrict(cmd, nest) ==
  [data |-> IF NestGet(nest, cmd.key).some THEN OK ELSE Null,
   nest |-> NestRem(nest, cmd.key)]

\* RemCommand::execute
RemExecute(cmd, nest) == [data |-> OK, nest |-> NestRem(nest, cmd.key)]

\* Command::execute, dispatched on the command's type
execute(cmd, nest) ==
  CASE cmd.name = GET -> GetExecute(cmd, nest)
    [] cmd.name = SET -> SetExecute(cmd, nest)
    [] cmd.name = REM -> RemExecute(cmd, nest)

\* Engine::process on a request's content: parse, then execute; a parse
\* failure becomes an Error value and leaves the Nest alone.
process(content, nest) ==
  LET p == parse_command(content)
  IN  IF p.ok THEN execute(p.cmd, nest)
      ELSE [data |-> Error(p.msg), nest |-> nest]

(***************************************************************************)
(* The Engine with an output channel (core/engine.rs) and the commands it  *)
(* executes (commands/): a request is a Message holding a parsed command,  *)
(* an output a Message holding an Option<Egg>.                             *)
(***************************************************************************)
INSERT == <<"I", "N", "S", "E", "R", "T">>
POP == <<"P", "O", "P">>

\* Message::new(id, content)
Message(id, content) == [id |-> id, content |-> content]

\* an insert that returns the Egg it stored
NestInsertReturnedNew(nest, egg) ==
  IF egg.key \in DOMAIN nest THEN SomeEgg(egg) ELSE NoEgg

\* Nest::insert: the value returned (HashMap::insert returns the entry it
\* replaced)
NestInsertReturned(nest, egg) ==
  IF egg.key \in DOMAIN nest THEN SomeEgg(nest[egg.key]) ELSE NoEgg

\* Nest::pop: the value returned (HashMap::remove returns the entry removed)
NestPopReturned(nest, key) ==
  IF key \in DOMAIN nest THEN SomeEgg(nest[key]) ELSE NoEgg

\* Engine::insert, Engine::get, Engine::pop: the Option<Egg> returned and the
\* Nest afterwards
EngineInsert(key, value, n) ==
  [egg |-> NestInsertReturned(n, Egg(key, value)),
   nest |-> NestInsert(n, Egg(key, value))]

EngineGet(key, n) == [egg |-> NestGet(n, key), nest |-> n]

EnginePop(key, n) == [egg |-> NestPopReturned(n, key), nest |-> NestPop(n, key)]

\* Command::execute of InsertCommand, GetCommand and PopCommand
CommandExecute(cmd, n) ==
  CASE cmd.name = INSERT -> EngineInsert(cmd.key, cmd.value, n)
    [] cmd.name = GET -> EngineGet(cmd.key, n)
    [] cmd.name = POP -> EnginePop(cmd.key, n)

\* a process that gives every output the id 0
EngineProcessMessageNoId(msg, n) ==
  LET r == CommandExecute(msg.content, n)
  IN  [output |-> Message(0, r.egg), nest |-> r.nest]

\* Engine::process: execute the input's command, give the output the
\* input's id
EngineProcessMessage(msg, n) ==
  LET r == CommandExecute(msg.content, n)
  IN  [output |-> Message(msg.id, r.egg), nest |-> r.nest]

(***************************************************************************)
(* The Engine with two shared queues (core/sparrow_engine.rs), over the    *)
(* Nest whose get and pop return a Result (nest.rs).  A result is Ok with  *)
(* an Option<Egg> or Err(EggNotInNestError) naming the key.                *)
(***************************************************************************)
ResultOk(egg) == [ok |-> TRUE, egg |-> egg, missing |-> <<>>]
ResultErr(key) == [ok |-> FALSE, egg |-> NoEgg, missing |-> key]

\* Nest::get and Nest::pop of that Nest: ok_or(EggNotInNestError::new(key))
NestGetResult(nest, key) ==
  IF key \in DOMAIN nest THEN ResultOk(SomeEgg(nest[key])) ELSE ResultErr(key)

NestPopResult(nest, key) ==
  IF key \in DOMAIN nest THEN ResultOk(SomeEgg(nest[key])) ELSE ResultErr(key)

\* SparrowEngine::insert, get, pop: the Result returned and the Nest
\* afterwards
SparrowEngineInsert(key, value, n) ==
  [result |-> ResultOk(NestInsertReturned(n, Egg(key, value))),
   nest |-> NestInsert(n, Egg(key, value))]

SparrowEngineGet(key, n) == [result |-> NestGetResult(n, key), nest |-> n]

SparrowEnginePop(key, n) ==
  [result |-> NestPopResult(n, key), nest |-> NestPop(n, key)]

\* SparrowEngine::execute
SparrowEngineExecute(cmd, n) ==
  CASE cmd.name = INSERT -> SparrowEngineInsert(cmd.key, cmd.value, n)
    [] cmd.name = GET -> SparrowEngineGet(cmd.key, n)
    [] cmd.name = POP -> SparrowEnginePop(cmd.key, n)

(***************************************************************************)
(* The commands as the HTTP server parses them from a request body         *)
(* (core/commands/engine_command.rs).                                      *)
(***************************************************************************)
EXIT == <<"E", "X", "I", "T">>

\* InsertCommand::new, PopCommand::new
InsertCommandNew(args) ==
  IF Len(args) = 2 THEN ParseOk(Command(INSERT, args[1], args[2]))
  ELSE ParseErr(WrongArgs(INSERT, 2, Len(args)))

PopCommandNew(args) ==
  IF Len(args) = 1 THEN ParseOk(Command(POP, args[1], <<>>))
  ELSE ParseErr(WrongArgs(POP, 1, Len(args)))

\* parse_engine_command: the verb and its arguments, split at single spaces;
\* EXIT parses to no command.
parse_engine_command(input) ==
  LET inputs == Split(input, <<>>)
      name == inputs[1]
      args == Tail(inputs)
  IN  CASE name = GET -> GetCommandNew(args)
        [] name = INSERT -> InsertCommandNew(args)
        [] name = POP -> PopCommandNew(args)
        [] name = EXIT -> ParseOk(Command(<<>>, <<>>, <<>>))
        [] OTHER -> ParseErr(<<"Command not found: ">> \o name)

(***************************************************************************)
(* The server: accept_loop, one connection_loop per accepted connection,   *)
(* the Engine loop, and the peers at the other end of the sockets.         *)
(***************************************************************************)
\* Connections the listener may accept in one run.
MaxConns == 2
\* Frames the peers send in one run, all connections together.
MaxFrames == 3

Conns == 1..MaxConns

\* The same for the specifications with more kinds of input or of steps.
MaxFramesShort == 2

\* What a peer may send in one piece: commands, a command with a wrong
\* argument count, a line with an unknown type tag.
Frames ==
  { <<"$", "5", CR, LF, "G", "E", "T", " ", "a", CR, LF>>,
    <<"$", "7", CR, LF, "S", "E", "T", " ", "a", " ", "x", CR, LF>>,
    <<"$", "7", CR, LF, "S", "E", "T", " ", "a", " ", "y", CR, LF>>,
    <<"$", "5", CR, LF, "R", "E", "M", " ", "a", CR, LF>>,
    <<"$", "3", CR, LF, "G", "E", "T", CR, LF>>,
    <<"?", CR, LF>> }

\* Further input: an unknown verb, a value that is no bulk string, a line
\* without CR, invalid UTF-8, a size over the maximum, a line that is too
\* short, a frame cut short.
BadFrames ==
  { <<"$", "3", CR, LF, "g", "e", "t", CR, LF>>,
    <<":", "7", CR, LF>>,
    <<"+", "a", LF>>,
    <<"+", BAD_BYTE, CR, LF>>,
    <<"$", "5", "3", "6", "8", "7", "0", "9", "1", "3", CR, LF>>,
    <<LF>>,
    <<"$", "5", CR, LF, "G", "E">> }

VARIABLES
  acceptor,  \* accept_loop: "bind", "accept", or "failed" (returned Err)
  conn,      \* connection_loop of c: "none" (not accepted), "decode", "await"
             \* (receiver.recv), "write" (encode and flush), "closed"
             \* (returned Ok), "failed" (returned Err), "aborted"
  peer,      \* the peer of c: "absent", "open", "closed"
  inbuf,     \* bytes c's reader has received and not consumed
  output,    \* connection_loop's local `output`, while conn[c] = "write"
  outbuf,    \* what c's writer has flushed, one element per flush
  queue,     \* the Engine's request channel
  reply,     \* the reply channel of each connection
  engine,    \* the Engine loop: "recv", "process", "send", "stopped"
  input,     \* the request the Engine holds between recv and send
  eoutput,   \* the value the Engine sends for it
  nest,      \* the Engine's Nest
  sent,      \* frames sent by the peers so far
  arrived,   \* history: the requests in the order they were enqueued
  log,       \* history: the requests the Engine processed, with their results
  frames,    \* history: per connection, the outcome of each decode
  pc,        \* which program runs: "server", or the next step of a call of
             \* one function on its own ("encode", "decode", "parse",
             \* "execute", "done")
  value,     \* the Data given to encode or to parse_command
  wire,      \* the bytes encode wrote, the bytes given to decode
  eof,       \* whether the stream given to decode ends after wire
  result,    \* what decode, parse_command or run_engine returned
  fields,    \* the channel Engine's fields receiver and sender: whether each
             \* is Some
  outputs,   \* the channel Engine's output channel; the queue Engine's
             \* output_queue
  input_sender,    \* the handle init() returned for the request channel:
                   \* "none" before init, "alive", "dropped"
  output_receiver, \* the handle init() returned for the output channel
  max_connections, \* run_tcp_server's parameter
  available_ids,   \* run_tcp_server's queue of ids
  socket_id,       \* per connection of the HTTP server, the id its service
                   \* was made with: NoId before the connection, None, or an id;
                   \* of the polling server, the token it was registered with
  unique_token,    \* handle_incoming_connections' counter of tokens
  connections      \* the polling server's map of connections, by token

vars == <<acceptor, conn, peer, inbuf, output, outbuf, queue, reply, engine,
          input, eoutput, nest, sent, arrived, log, frames,
          pc, value, wire, eof, result,
          fields, outputs, input_sender, output_receiver,
          max_connections, available_ids, socket_id,
          unique_token, connections>>

netVars == <<acceptor, conn, peer, inbuf, output, outbuf, reply, sent, frames>>
engineVars == <<engine, input, eoutput, nest, log>>
serverVars == <<acceptor, conn, peer, inbuf, output, outbuf, queue, reply,
                engine, input, eoutput, nest, sent, arrived, log, frames>>
\* The variables of the calls of one function on its own.
pureVars == <<pc, value, wire, eof, result>>

\* The variables of the earlier designs alone: the Engine with an output
\* channel and the HTTP server.
earlierVars == <<fields, outputs, input_sender, output_receiver,
                 max_connections, available_ids, socket_id,
                 unique_token, connections>>

\* The variables of the polling server alone.
mioVars == <<unique_token, connections>>

\* HashMap::new(): no connection.
NoConnections == [t \in {} |-> 0]

\* Nothing returned yet.
NoResult == [kind |-> "None"]

\* socket_id before the connection is made, and Option::None.
NoId == -2
None == -1

\* The earlier designs as they are when they do not run.
EarlierIdle ==
  /\ fields = [receiver |-> FALSE, sender |-> FALSE]
  /\ outputs = <<>>
  /\ input_sender = "none"
  /\ output_receiver = "none"
  /\ max_connections = 0
  /\ available_ids = <<>>
  /\ socket_id = [c \in Conns |-> NoId]
  /\ unique_token = 0
  /\ connections = NoConnections

\* EngineInput::new(id, input, sender)
EngineInput(id, content, sender) == [id |-> id, content |-> content, sender |-> sender]

NoInput == EngineInput(0, Null, 0)

\* connection_loop has returned or was dropped: its receiver and its clone of
\* engine_sender are gone.
Ended(c) == conn[c] \in {"closed", "failed", "aborted"}

\* The reply channel of c can still be sent on.
ReplyOpen(c) == ~Ended(c)

\* Some clone of the Engine's producer handle is alive.
ProducerAlive ==
  \/ acceptor # "failed"
  \/ \E c \in Conns : conn[c] # "none" /\ ~Ended(c)

\* The server as constructed: nothing bound, accepted, queued or stored.
ServerInit ==
  /\ acceptor = "bind"
  /\ conn = [c \in Conns |-> "none"]
  /\ peer = [c \in Conns |-> "absent"]
  /\ inbuf = [c \in Conns |-> <<>>]
  /\ output = [c \in Conns |-> Null]
  /\ outbuf = [c \in Conns |-> <<>>]
  /\ queue = <<>>
  /\ reply = [c \in Conns |-> <<>>]
  /\ engine = "recv"
  /\ input = NoInput
  /\ eoutput = Null
  /\ nest = NestNew
  /\ sent = 0
  /\ arrived = <<>>
  /\ log = <<>>
  /\ frames = [c \in Conns |-> <<>>]

Init ==
  /\ ServerInit
  /\ EarlierIdle
  /\ pc = "server"
  /\ value = Null
  /\ wire = <<>>
  /\ eof = FALSE
  /\ result = NoResult

(***************************************************************************)
(* accept_loop                                                             *)
(***************************************************************************)
\* TcpListener::bind(addr).await? succeeds
Bind ==
  /\ acceptor = "bind"
  /\ acceptor' = "accept"
  /\ UNCHANGED <<conn, peer, inbuf, output, outbuf, queue, reply, sent, frames,
                 arrived>>
  /\ UNCHANGED engineVars
  /\ UNCHANGED <<pureVars, earlierVars>>

\* TcpListener::bind(addr).await? fails: accept_loop returns the error
BindFail ==
  /\ acceptor = "bind"
  /\ acceptor' = "failed"
  /\ UNCHANGED <<conn, peer, inbuf, output, outbuf, queue, reply, sent, frames,
                 arrived>>
  /\ UNCHANGED engineVars
  /\ UNCHANGED <<pureVars, earlierVars>>

\* incoming.next() yields a stream: a connection_loop task is spawned for it
\* with a clone of engine_sender.  Connections take the slots in order.
Accept(c) ==
  /\ acceptor = "accept"
  /\ conn[c] = "none"
  /\ \A d \in Conns : d < c => conn[d] # "none"
  /\ conn' = [conn EXCEPT ![c] = "decode"]
  /\ peer' = [peer EXCEPT ![c] = "open"]
  /\ UNCHANGED <<acceptor, inbuf, output, outbuf, queue, reply, sent, frames,
                 arrived>>
  /\ UNCHANGED engineVars
  /\ UNCHANGED <<pureVars, earlierVars>>

\* incoming.next() yields an error (or peer_addr() fails): `stream?` returns
\* it from accept_loop
AcceptFail ==
  /\ acceptor = "accept"
  /\ acceptor' = "failed"
  /\ UNCHANGED <<conn, peer, inbuf, output, outbuf, queue, reply, sent, frames,
                 arrived>>
  /\ UNCHANGED engineVars
  /\ UNCHANGED <<pureVars, earlierVars>>

(***************************************************************************)
(* The peers                                                               *)
(***************************************************************************)
PeerSend(c, frame, max) ==
  /\ peer[c] = "open"
  /\ sent < max
  /\ sent' = sent + 1
  /\ inbuf' = [inbuf EXCEPT ![c] = @ \o frame]
  /\ UNCHANGED <<acceptor, conn, peer, output, outbuf, queue, reply, frames,
                 arrived>>
  /\ UNCHANGED engineVars
  /\ UNCHANGED <<pureVars, earlierVars>>

PeerClose(c) ==
  /\ peer[c] = "open"
  /\ peer' = [peer EXCEPT ![c] = "closed"]
  /\ UNCHANGED <<acceptor, conn, inbuf, output, outbuf, queue, reply, sent,
                 frames, arrived>>
  /\ UNCHANGED engineVars
  /\ UNCHANGED <<pureVars, earlierVars>>

(***************************************************************************)
(* connection_loop                                                         *)
(***************************************************************************)
\* What decode(&mut reader) returns for c now; "Pending" while it is
\* suspended on the socket.
Decoded(c) == decode(inbuf[c], peer[c] = "closed")

Outcome(kind, data) == [kind |-> kind, data |-> data]

\* The Engine's receiver is alive: engine_sender.send succeeds.
QueueOpen == engine # "stopped"

\* a handler that gives every request the reply sender of connection 1
HandlerRequestSharedSender(c) ==
  /\ conn[c] = "decode"
  /\ QueueOpen
  /\ LET r == Decoded(c)
     IN  /\ r.kind = "Ok"
         /\ inbuf' = [inbuf EXCEPT ![c] = r.rest]
         /\ queue' = Append(queue, EngineInput(c, r.data, 1))
         /\ arrived' = Append(arrived, EngineInput(c, r.data, 1))
         /\ frames' = [frames EXCEPT ![c] = Append(@, Outcome("request", r.data))]
  /\ conn' = [conn EXCEPT ![c] = "await"]
  /\ UNCHANGED <<acceptor, peer, output, outbuf, reply, sent>>
  /\ UNCHANGED engineVars
  /\ UNCHANGED <<pureVars, earlierVars>>

\* a handler that sends the request and decodes the next frame at once
HandlerRequestNoAwait(c) ==
  /\ conn[c] = "decode"
  /\ QueueOpen
  /\ LET r == Decoded(c)
     IN  /\ r.kind = "Ok"
         /\ inbuf' = [inbuf EXCEPT ![c] = r.rest]
         /\ queue' = Append(queue, EngineInput(c, r.data, c))
         /\ arrived' = Append(arrived, EngineInput(c, r.data, c))
         /\ frames' = [frames EXCEPT ![c] = Append(@, Outcome("request", r.data))]
  /\ conn' = [conn EXCEPT ![c] = "decode"]
  /\ UNCHANGED <<acceptor, peer, output, outbuf, reply, sent>>
  /\ UNCHANGED engineVars
  /\ UNCHANGED <<pureVars, earlierVars>>

\* Ok(input): the request is built and sent to the Engine, and the task
\* goes on to receiver.recv()
HandlerRequest(c) ==
  /\ conn[c] = "decode"
  /\ QueueOpen
  /\ LET r == Decoded(c)
     IN  /\ r.kind = "Ok"
         /\ inbuf' = [inbuf EXCEPT ![c] = r.rest]
         /\ queue' = Append(queue, EngineInput(c, r.data, c))
         /\ arrived' = Append(arrived, EngineInput(c, r.data, c))
         /\ frames' = [frames EXCEPT ![c] = Append(@, Outcome("request", r.data))]
  /\ conn' = [conn EXCEPT ![c] = "await"]
  /\ UNCHANGED <<acceptor, peer, output, outbuf, reply, sent>>
  /\ UNCHANGED engineVars
  /\ UNCHANGED <<pureVars, earlierVars>>

\* Ok(input), but engine_sender.send(input).await? fails: the queue is
\* closed, and connection_loop returns the error
HandlerSendFail(c) ==
  /\ conn[c] = "decode"
  /\ ~QueueOpen
  /\ LET r == Decoded(c)
     IN  /\ r.kind = "Ok"
         /\ inbuf' = [inbuf EXCEPT ![c] = r.rest]
         /\ frames' = [frames EXCEPT ![c] = Append(@, Outcome("unsent", r.data))]
  /\ conn' = [conn EXCEPT ![c] = "failed"]
  /\ UNCHANGED <<acceptor, peer, output, outbuf, queue, reply, sent, arrived>>
  /\ UNCHANGED engineVars
  /\ UNCHANGED <<pureVars, earlierVars>>

\* a BrokenPipe handled like the other errors: an Error reply is written
HandlerDisconnectedReply(c) ==
  /\ conn[c] = "decode"
  /\ LET r == Decoded(c)
     IN  /\ r.kind = "BrokenPipe"
         /\ inbuf' = [inbuf EXCEPT ![c] = r.rest]
         /\ output' = [output EXCEPT ![c] = Error(r.msg)]
         /\ frames' = [frames EXCEPT ![c] = Append(@, Outcome("eof", Null))]
  /\ conn' = [conn EXCEPT ![c] = "write"]
  /\ UNCHANGED <<acceptor, peer, outbuf, queue, reply, sent, arrived>>
  /\ UNCHANGED engineVars
  /\ UNCHANGED <<pureVars, earlierVars>>

\* Err(err) of kind BrokenPipe: break, and connection_loop returns Ok(())
HandlerDisconnected(c) ==
  /\ conn[c] = "decode"
  /\ LET r == Decoded(c)
     IN  /\ r.kind = "BrokenPipe"
         /\ inbuf' = [inbuf EXCEPT ![c] = r.rest]
         /\ frames' = [frames EXCEPT ![c] = Append(@, Outcome("eof", Null))]
  /\ conn' = [conn EXCEPT ![c] = "closed"]
  /\ UNCHANGED <<acceptor, peer, output, outbuf, queue, reply, sent, arrived>>
  /\ UNCHANGED engineVars
  /\ UNCHANGED <<pureVars, earlierVars>>

\* a decode error that ends the connection without a reply
HandlerDecodeErrorClose(c) ==
  /\ conn[c] = "decode"
  /\ LET r == Decoded(c)
     IN  /\ r.kind \in ErrorKinds \ {"BrokenPipe"}
         /\ inbuf' = [inbuf EXCEPT ![c] = r.rest]
         /\ frames' = [frames EXCEPT ![c] = Append(@, Outcome("error", Error(r.msg)))]
  /\ conn' = [conn EXCEPT ![c] = "closed"]
  /\ UNCHANGED <<acceptor, peer, output, outbuf, queue, reply, sent, arrived>>
  /\ UNCHANGED engineVars
  /\ UNCHANGED <<pureVars, earlierVars>>

\* Err(err) of any other kind: the output is Data::Error(format!("{}", err))
HandlerDecodeError(c) ==
  /\ conn[c] = "decode"
  /\ LET r == Decoded(c)
     IN  /\ r.kind \in ErrorKinds \ {"BrokenPipe"}
         /\ inbuf' = [inbuf EXCEPT ![c] = r.rest]
         /\ output' = [output EXCEPT ![c] = Error(r.msg)]
         /\ frames' = [frames EXCEPT ![c] = Append(@, Outcome("error", Error(r.msg)))]
  /\ conn' = [conn EXCEPT ![c] = "write"]
  /\ UNCHANGED <<acceptor, peer, outbuf, queue, reply, sent, arrived>>
  /\ UNCHANGED engineVars
  /\ UNCHANGED <<pureVars, earlierVars>>

\* a recv that does not wait: with no reply there yet the output is Null
HandlerRecvNoWait(c) ==
  /\ conn[c] = "await"
  /\ output' = [output EXCEPT ![c] = IF reply[c] = <<>> THEN Null ELSE Head(reply[c])]
  /\ reply' = [reply EXCEPT ![c] = IF @ = <<>> THEN @ ELSE Tail(@)]
  /\ conn' = [conn EXCEPT ![c] = "write"]
  /\ UNCHANGED <<acceptor, peer, inbuf, outbuf, queue, sent, frames, arrived>>
  /\ UNCHANGED engineVars
  /\ UNCHANGED <<pureVars, earlierVars>>

\* receiver.recv().await? returns the reply.  (It cannot fail: the task's
\* own `sender` keeps the reply channel open.)
HandlerRecv(c) ==
  /\ conn[c] = "await"
  /\ reply[c] # <<>>
  /\ output' = [output EXCEPT ![c] = Head(reply[c])]
  /\ reply' = [reply EXCEPT ![c] = Tail(@)]
  /\ conn' = [conn EXCEPT ![c] = "write"]
  /\ UNCHANGED <<acceptor, peer, inbuf, outbuf, queue, sent, frames, arrived>>
  /\ UNCHANGED engineVars
  /\ UNCHANGED <<pureVars, earlierVars>>

\* a write that loses the reply: nothing reaches the peer
HandlerWriteLost(c) ==
  /\ conn[c] = "write"
  /\ conn' = [conn EXCEPT ![c] = "decode"]
  /\ UNCHANGED <<acceptor, peer, inbuf, output, outbuf, queue, reply, sent,
                 frames, arrived>>
  /\ UNCHANGED engineVars
  /\ UNCHANGED <<pureVars, earlierVars>>

\* encode(&output, &mut writer).await?; writer.flush().await? succeed
HandlerWrite(c) ==
  /\ conn[c] = "write"
  /\ outbuf' = [outbuf EXCEPT ![c] = Append(@, encode(output[c]))]
  /\ conn' = [conn EXCEPT ![c] = "decode"]
  /\ UNCHANGED <<acceptor, peer, inbuf, output, queue, reply, sent, frames,
                 arrived>>
  /\ UNCHANGED engineVars
  /\ UNCHANGED <<pureVars, earlierVars>>

\* the write or the flush fails, which it can once the peer has closed:
\* connection_loop returns the error
HandlerWriteFail(c) ==
  /\ conn[c] = "write"
  /\ peer[c] = "closed"
  /\ conn' = [conn EXCEPT ![c] = "failed"]
  /\ UNCHANGED <<acceptor, peer, inbuf, output, outbuf, queue, reply, sent,
                 frames, arrived>>
  /\ UNCHANGED engineVars
  /\ UNCHANGED <<pureVars, earlierVars>>

\* The task of c is dropped while it is suspended in receiver.recv(): its
\* reply receiver goes with it.  No code of connection_loop does this; it is
\* the situation "the connection's reply channel has been dropped".
ConnAbort(c) ==
  /\ conn[c] = "await"
  /\ conn' = [conn EXCEPT ![c] = "aborted"]
  /\ UNCHANGED <<acceptor, peer, inbuf, output, outbuf, queue, reply, sent,
                 frames, arrived>>
  /\ UNCHANGED engineVars
  /\ UNCHANGED <<pureVars, earlierVars>>

(***************************************************************************)
(* The Engine loop                                                         *)
(***************************************************************************)
\* a recv that takes the newest request instead of the oldest
EngineRecvLast ==
  /\ engine = "recv"
  /\ queue # <<>>
  /\ input' = queue[Len(queue)]
  /\ queue' = SubSeq(queue, 1, Len(queue) - 1)
  /\ engine' = "process"
  /\ UNCHANGED <<eoutput, nest, log, arrived>>
  /\ UNCHANGED netVars
  /\ UNCHANGED <<pureVars, earlierVars>>

\* a recv that leaves the request it returns on the queue
EngineRecvPeek ==
  /\ engine = "recv"
  /\ queue # <<>>
  /\ input' = Head(queue)
  /\ engine' = "process"
  /\ UNCHANGED <<eoutput, nest, log, arrived, queue>>
  /\ UNCHANGED netVars
  /\ UNCHANGED <<pureVars, earlierVars>>

\* receiver.recv()? returns the next request
EngineRecv ==
  /\ engine = "recv"
  /\ queue # <<>>
  /\ input' = Head(queue)
  /\ queue' = Tail(queue)
  /\ engine' = "process"
  /\ UNCHANGED <<eoutput, nest, log, arrived>>
  /\ UNCHANGED netVars
  /\ UNCHANGED <<pureVars, earlierVars>>

\* receiver.recv()? fails: the queue is empty and every producer is gone;
\* the loop returns the error
EngineRecvFail ==
  /\ engine = "recv"
  /\ queue = <<>>
  /\ ~ProducerAlive
  /\ engine' = "stopped"
  /\ UNCHANGED <<input, eoutput, nest, log, queue, arrived>>
  /\ UNCHANGED netVars
  /\ UNCHANGED <<pureVars, earlierVars>>

\* engine.process(input)
EngineProcess ==
  /\ engine = "process"
  /\ LET r == process(input.content, nest)
     IN  /\ nest' = r.nest
         /\ eoutput' = r.data
         /\ log' = Append(log, [id |-> input.id, content |-> input.content,
                                data |-> r.data])
  /\ engine' = "send"
  /\ UNCHANGED <<input, queue, arrived>>
  /\ UNCHANGED netVars
  /\ UNCHANGED <<pureVars, earlierVars>>

\* the output is sent on the request's reply channel
EngineSend ==
  /\ engine = "send"
  /\ ReplyOpen(input.sender)
  /\ reply' = [reply EXCEPT ![input.sender] = Append(@, eoutput)]
  /\ engine' = "recv"
  /\ input' = NoInput
  /\ UNCHANGED <<eoutput, nest, log, queue, arrived>>
  /\ UNCHANGED <<acceptor, conn, peer, inbuf, output, outbuf, sent, frames>>
  /\ UNCHANGED <<pureVars, earlierVars>>

\* sender.send(output)? fails, the receiver being dropped: the loop returns
\* the error
EngineSendFail ==
  /\ engine = "send"
  /\ ~ReplyOpen(input.sender)
  /\ engine' = "stopped"
  /\ UNCHANGED <<input, eoutput, nest, log, queue, arrived>>
  /\ UNCHANGED netVars
  /\ UNCHANGED <<pureVars, earlierVars>>

(***************************************************************************)
(* Specifications                                                          *)
(***************************************************************************)
HandlerStep(c) ==
  \/ HandlerRequest(c)
  \/ HandlerDisconnected(c)
  \/ HandlerDecodeError(c)
  \/ HandlerRecv(c)
  \/ HandlerWrite(c)
  \/ HandlerWriteFail(c)

EngineStep ==
  \/ EngineRecv
  \/ EngineRecvFail
  \/ EngineProcess
  \/ EngineSend

\* Every step of the server itself.
ServerStep ==
  \/ Bind
  \/ BindFail
  \/ AcceptFail
  \/ \E c \in Conns : Accept(c)
  \/ \E c \in Conns : PeerClose(c)
  \/ \E c \in Conns : HandlerStep(c)
  \/ EngineStep

Next ==
  \/ ServerStep
  \/ \E c \in Conns : \E frame \in Frames : PeerSend(c, frame, MaxFrames)

\* The server as it runs.
Spec == Init /\ [][Next]_vars

\* The server when a connection task may be dropped while it waits for its
\* reply; only then can the Engine's send and a handler's enqueue fail.
NextFault ==
  \/ ServerStep
  \/ \E c \in Conns : \E frame \in Frames : PeerSend(c, frame, MaxFramesShort)
  \/ \E c \in Conns : ConnAbort(c)
  \/ EngineSendFail
  \/ \E c \in Conns : HandlerSendFail(c)

SpecFault == Init /\ [][NextFault]_vars

\* The server fed every kind of input, malformed input included.
NextBad ==
  \/ ServerStep
  \/ \E c \in Conns :
       \E frame \in Frames \cup BadFrames : PeerSend(c, frame, MaxFramesShort)

SpecBad == Init /\ [][NextBad]_vars

\* The part of connection_loop after the request is sent: await the reply,
\* write and flush it.
HandlerReply(c) ==
  \/ HandlerRecv(c)
  \/ HandlerWrite(c)
  \/ HandlerWriteFail(c)

\* The same under fair scheduling: the Engine thread keeps being run while it
\* has a step to take, and so does every connection task that has read a
\* frame and owes its reply.
Fairness ==
  /\ WF_vars(EngineStep)
  /\ \A c \in Conns : WF_vars(HandlerReply(c))

FairSpecBad == SpecBad /\ Fairness

(***************************************************************************)
(* What the histories say                                                  *)
(***************************************************************************)
\* The Nest after the first n of reqs are applied one after the other to an
\* empty Nest, and the reply to the i-th of them.
RECURSIVE ReplayNest(_, _)
ReplayNest(reqs, n) ==
  IF n = 0 THEN NestNew
  ELSE process(reqs[n].content, ReplayNest(reqs, n - 1)).nest

ReplayData(reqs, i) == process(reqs[i].content, ReplayNest(reqs, i - 1)).data

\* The requests of c in the order the Engine was sent them, and processed them.
ArrivedOf(c) == SelectSeq(arrived, LAMBDA r : r.id = c)
ProcessedOf(c) == SelectSeq(log, LAMBDA e : e.id = c)

\* The decodes of c that produced a request, and those that call for a reply.
RequestsOf(c) == SelectSeq(frames[c], LAMBDA o : o.kind = "request")
AnswerableOf(c) == SelectSeq(frames[c], LAMBDA o : o.kind \in {"request", "error"})

\* How many of the first i answerable frames of c are requests.
NRequests(c, i) ==
  Cardinality({j \in 1..i : AnswerableOf(c)[j].kind = "request"})

\* The reply due to the i-th answerable frame of c: the Error of a failed
\* decode, the Engine's result for a request.
ExpectedReply(c, i) ==
  LET o == AnswerableOf(c)[i]
  IN  IF o.kind = "error" THEN o.data ELSE ProcessedOf(c)[NRequests(c, i)].data

\* The i-th flush of c carries the reply due to its i-th answerable frame.
RepliesMatch(c) ==
  /\ Len(outbuf[c]) <= Len(AnswerableOf(c))
  /\ \A i \in 1..Len(outbuf[c]) :
       /\ AnswerableOf(c)[i].kind = "request" =>
            NRequests(c, i) <= Len(ProcessedOf(c))
       /\ outbuf[c][i] = encode(ExpectedReply(c, i))

\* The command of the i-th processed request.
LogCmd(i) == parse_command(log[i].content)

(***************************************************************************)
(* C1: The Engine executes the requests one at a time in the order they    *)
(* arrived on its queue: the processed requests are the first arrivals in  *)
(* arrival order, every reply and the Nest equal those of applying these   *)
(* requests one after the other to an empty Nest, and between dequeuing a  *)
(* request and sending its reply the Engine holds that request alone.      *)
(***************************************************************************)
C1_SequentialExecution ==
  LET n == Len(log)
      held == IF engine = "process" THEN 1 ELSE 0
  IN  /\ n + held + Len(queue) = Len(arrived)
      /\ \A i \in 1..n :
           /\ log[i].id = arrived[i].id
           /\ log[i].content = arrived[i].content
           /\ log[i].data = ReplayData(arrived, i)
      /\ nest = ReplayNest(arrived, n)
      /\ engine = "process" => input = arrived[n + 1]
      /\ engine = "send" => input = arrived[n] /\ eoutput = log[n].data
      /\ engine \in {"recv", "stopped"} => input = NoInput
      /\ queue = SubSeqFrom(arrived, n + held + 1)

\* Three requests of two connections were processed and a GET found a value.
C1_Witness ==
  /\ Len(log) = 3
  /\ \E i, j \in 1..3 : log[i].id # log[j].id
  /\ \E i \in 1..3 : log[i].data.tag = "BulkString"
  /\ nest # NestNew

(***************************************************************************)
(* C2: When two connections have each had a SET on the same key answered   *)
(* OK, a GET of that key processed after both, with no SET or REM of the   *)
(* key in between, returns the value of the SET the Engine dequeued last.  *)
(***************************************************************************)
C2_TwoSets(i, j, m) ==
  /\ i < j /\ j < m
  /\ log[i].id # log[j].id
  /\ LogCmd(i).ok /\ LogCmd(j).ok /\ LogCmd(m).ok
  /\ LogCmd(i).cmd.name = SET /\ LogCmd(j).cmd.name = SET
  /\ LogCmd(m).cmd.name = GET
  /\ LogCmd(i).cmd.key = LogCmd(j).cmd.key
  /\ LogCmd(m).cmd.key = LogCmd(j).cmd.key
  /\ log[i].data = OK /\ log[j].data = OK
  /\ \A l \in (j + 1)..(m - 1) :
       ~(LogCmd(l).ok /\ LogCmd(l).cmd.name \in {SET, REM}
           /\ LogCmd(l).cmd.key = LogCmd(j).cmd.key)

C2_LastSetWins ==
  \A i, j, m \in 1..Len(log) :
    C2_TwoSets(i, j, m) => log[m].data = BulkString(LogCmd(j).cmd.value)

\* Two connections set different values, and the GET's reply reached its peer.
C2_Witness ==
  \E i, j, m \in 1..Len(log) :
    /\ C2_TwoSets(i, j, m)
    /\ LogCmd(i).cmd.value # LogCmd(j).cmd.value
    /\ \E k \in 1..Len(outbuf[log[m].id]) :
         outbuf[log[m].id][k] = encode(BulkString(LogCmd(j).cmd.value))

(***************************************************************************)
(* C3: For every connection, the requests the Engine was sent and the      *)
(* requests it processed for that connection are, in order, the requests   *)
(* the handler decoded, and the replies flushed to the connection are, in  *)
(* order, the replies to the frames it decoded.                            *)
(***************************************************************************)
C3_PerConnectionOrder ==
  \A c \in Conns :
    /\ Len(ArrivedOf(c)) = Len(RequestsOf(c))
    /\ \A i \in 1..Len(ArrivedOf(c)) : ArrivedOf(c)[i].content = RequestsOf(c)[i].data
    /\ Len(ProcessedOf(c)) <= Len(RequestsOf(c))
    /\ \A i \in 1..Len(ProcessedOf(c)) :
         ProcessedOf(c)[i].content = RequestsOf(c)[i].data
    /\ RepliesMatch(c)

\* One connection had two different requests answered while another
\* connection's request was processed between them.
C3_Witness ==
  \E c \in Conns :
    /\ Len(outbuf[c]) = 2
    /\ outbuf[c][1] # outbuf[c][2]
    /\ Len(log) = 3
    /\ log[1].id = c /\ log[2].id # c /\ log[3].id = c

(***************************************************************************)
(* C4: Every frame a handler reads is eventually answered by exactly one   *)
(* reply flushed to its own connection, as long as the peer stays          *)
(* connected: the i-th flush of a connection is the Engine's result for    *)
(* its i-th frame when that decoded to a value and the Error of the decode *)
(* when it failed, there are never more flushes than frames read, and the  *)
(* i-th frame read leads to the i-th flush unless the peer disconnects.    *)
(***************************************************************************)
C4_EveryFrameAnswered ==
  /\ [](\A c \in Conns : RepliesMatch(c))
  /\ \A c \in Conns : \A i \in 1..MaxFramesShort :
       (Len(AnswerableOf(c)) >= i) ~> (Len(outbuf[c]) >= i \/ peer[c] = "closed")

\* A connection still open had a request and a frame that failed to decode
\* both answered, each once.
C4_Witness ==
  \E c \in Conns :
    /\ peer[c] = "open"
    /\ Len(AnswerableOf(c)) = 2
    /\ \E i, j \in 1..2 : /\ AnswerableOf(c)[i].kind = "request"
                          /\ AnswerableOf(c)[j].kind = "error"
    /\ Len(outbuf[c]) = 2
    /\ conn[c] = "decode"

(***************************************************************************)
(* C5: When the Engine's send of a reply fails because the reply channel   *)
(* of the request's connection has been dropped, the Engine does not stop. *)
(***************************************************************************)
C5_SendFailureIgnored ==
  [][(engine = "send" /\ ~ReplyOpen(input.sender)) => engine' # "stopped"]_vars

\* The connections and the acceptor leave the Engine running and leave a
\* connection open as long as its peer is: the Engine stops only when every
\* producer handle is gone, a connection task ends only after its peer closed.
KeepServing ==
  /\ engine = "stopped" => ~ProducerAlive
  /\ \A c \in Conns : Ended(c) => peer[c] = "closed"

\* content fails command parsing: it is not a BulkString, or its verb is
\* unknown, or the verb has the wrong number of arguments.
Malformed(content) ==
  \/ content.tag # "BulkString"
  \/ LET t == Split(content.str, <<>>)
     IN  \/ t[1] \notin {GET, SET, REM}
         \/ t[1] \in {GET, REM} /\ Len(t) # 2
         \/ t[1] = SET /\ Len(t) # 3

(***************************************************************************)
(* C6: The Engine's step on a request whose content fails command parsing  *)
(* leaves the Nest as it was and produces an Error value carrying the      *)
(* parse message, that value is what the Engine sends as the reply, and    *)
(* the Engine and the connections keep serving.                            *)
(***************************************************************************)
C6_ParseFailureAnswered ==
  /\ [][(engine = "process" /\ Malformed(input.content) /\ engine' # engine) =>
          /\ nest' = nest
          /\ engine' = "send"
          /\ eoutput'.tag = "Error"
          /\ eoutput' = Error(parse_command(input.content).msg)
          /\ eoutput'.str # <<>>]_vars
  /\ [][(engine = "send" /\ engine' # engine) =>
          /\ engine' = "recv"
          /\ reply' = [reply EXCEPT ![input.sender] = Append(@, eoutput)]]_vars
  /\ []KeepServing

\* A connection's first request failed to parse and was answered with the
\* Error; its second request was then executed and answered.
C6_Witness ==
  \E c \in Conns :
    /\ Len(log) = 2 /\ log[1].id = c /\ log[2].id = c
    /\ Malformed(log[1].content) /\ ~Malformed(log[2].content)
    /\ Len(outbuf[c]) = 2
    /\ outbuf[c][1] = encode(log[1].data) /\ log[1].data.tag = "Error"
    /\ outbuf[c][2] = encode(OK)
    /\ nest # NestNew

\* The decode of c now fails with an error other than BrokenPipe.
DecodeFails(c) ==
  conn[c] = "decode" /\ Decoded(c).kind \in ErrorKinds \ {"BrokenPipe"}

(***************************************************************************)
(* C7: The handler's step on a decode that fails with an error other than  *)
(* BrokenPipe sends nothing to the Engine and makes Error(description) the *)
(* output; the write of an output appends its encoding to the connection   *)
(* and returns the handler to decoding, failing only if the peer has       *)
(* closed; and no connection ends while its peer is connected.             *)
(***************************************************************************)
C7_DecodeErrorAnswered ==
  /\ [][\A c \in Conns :
          (DecodeFails(c) /\ conn'[c] # conn[c]) =>
            /\ queue' = queue /\ arrived' = arrived
            /\ UNCHANGED engineVars
            /\ conn'[c] = "write"
            /\ output'[c] = Error(Decoded(c).msg)
            /\ output'[c].str # <<>>]_vars
  /\ [][\A c \in Conns :
          (conn[c] = "write" /\ conn'[c] # conn[c]) =>
            \/ /\ conn'[c] = "decode"
               /\ outbuf'[c] = Append(outbuf[c], encode(output[c]))
            \/ /\ peer[c] = "closed"
               /\ conn'[c] = "failed"]_vars
  /\ [](\A c \in Conns : Ended(c) => peer[c] = "closed")

\* A connection's first frame failed to decode and was answered with the
\* Error, nothing having gone to the Engine; its next frame was a request,
\* and that was answered too.
C7_Witness ==
  \E c \in Conns :
    /\ peer[c] = "open" /\ conn[c] = "decode"
    /\ Len(frames[c]) = 2
    /\ frames[c][1].kind = "error" /\ frames[c][2].kind = "request"
    /\ Len(ArrivedOf(c)) = 1
    /\ Len(outbuf[c]) = 2
    /\ outbuf[c][1] = encode(frames[c][1].data)

(***************************************************************************)
(* C8: A read at the start of a frame that returns no byte makes decode    *)
(* fail with BrokenPipe; the handler's step on BrokenPipe ends the task    *)
(* with Ok, writing nothing, sending nothing to the Engine and touching    *)
(* neither the Engine nor another connection; a task that ended so stays   *)
(* ended and decodes no more.                                              *)
(***************************************************************************)
C8_CleanClose ==
  /\ [](\A c \in Conns :
          (conn[c] = "decode" /\ inbuf[c] = <<>> /\ peer[c] = "closed") =>
            Decoded(c).kind = "BrokenPipe")
  /\ [][\A c \in Conns :
          (conn[c] = "decode" /\ Decoded(c).kind = "BrokenPipe"
             /\ conn'[c] # conn[c]) =>
            /\ conn'[c] = "closed"
            /\ outbuf' = outbuf /\ output' = output
            /\ queue' = queue /\ arrived' = arrived /\ reply' = reply
            /\ UNCHANGED engineVars
            /\ \A d \in Conns \ {c} : conn'[d] = conn[d] /\ inbuf'[d] = inbuf[d]]_vars
  /\ [][\A c \in Conns :
          conn[c] = "closed" =>
            /\ conn'[c] = "closed"
            /\ frames'[c] = frames[c]
            /\ inbuf'[c] = inbuf[c]
            /\ outbuf'[c] = outbuf[c]]_vars

\* A connection that was served ended on its peer's close, and the other
\* connection had a request answered by the Engine and is still being served.
C8_Witness ==
  \E c, d \in Conns :
    /\ c # d
    /\ conn[c] = "closed"
    /\ frames[c][Len(frames[c])].kind = "eof"
    /\ Len(outbuf[c]) = 1
    /\ log # <<>> /\ log[Len(log)].id = d
    /\ Len(outbuf[d]) = 1 /\ conn[d] = "decode"
    /\ engine = "recv"

(***************************************************************************)
(* C9: When the Engine has stopped, no connection handler is left waiting  *)
(* for a reply that cannot come: a handler with a request outstanding      *)
(* terminates.                                                             *)
(***************************************************************************)
C9_HandlerTerminates ==
  \A c \in Conns : ~(engine = "stopped" /\ conn[c] = "await" /\ reply[c] = <<>>)

(***************************************************************************)
(* C10: Once the listener is bound, accept_loop keeps accepting: a failure *)
(* of one accept does not end it.                                          *)
(***************************************************************************)
C10_AcceptFailureLogged ==
  [][acceptor = "accept" => acceptor' = "accept"]_vars

(***************************************************************************)
(* encode and decode on their own: a value is encoded and the bytes are    *)
(* decoded again, or a byte stream is decoded.                             *)
(***************************************************************************)
\* Text for the strings of the values: empty, with a space, with CR, with
\* LF, with CR LF, looking like a header.
Texts ==
  { <<>>, <<"a">>, <<"a", " ", "b">>, <<"O", "K">>, <<CR>>, <<"a", LF, "b">>,
    <<CR, LF>>, <<"$", "1">> }

Scalars ==
  {BulkString(t) : t \in Texts} \cup {SimpleString(t) : t \in Texts}
    \cup {Error(t) : t \in Texts}
    \cup {Integer(n) : n \in {0, 7, -1, -12, 123456789}}
    \cup {Null, NullArray}

\* The items the arrays are built of.
Leaves ==
  { BulkString(<<"a", " ", "b">>), BulkString(<<CR, LF>>), SimpleString(<<"O", "K">>),
    Error(<<"a">>), Integer(-12), Null, NullArray, Array(<<>>) }

\* The values encoded: every scalar, and arrays nested up to three deep.
Values ==
  Scalars
    \cup {Array(<<>>)}
    \cup {Array(<<x>>) : x \in Leaves}
    \cup {Array(<<x, y>>) : x, y \in Leaves}
    \cup {Array(<<Array(<<x, y>>), z>>) : x, y, z \in {Integer(7), Null, BulkString(<<"a">>)}}
    \cup {Array(<<x, Array(<<Array(<<y>>)>>)>>) : x, y \in {SimpleString(<<"a">>), NullArray}}

\* encode(&value, &mut writer)
CodecEncode ==
  /\ pc = "encode"
  /\ wire' = encode(value)
  /\ pc' = "decode"
  /\ UNCHANGED <<value, eof, result>>
  /\ UNCHANGED <<serverVars, earlierVars>>

\* decode(&mut reader) on a reader holding wire
CodecDecode ==
  /\ pc = "decode"
  /\ result' = decode(wire, eof)
  /\ pc' = "done"
  /\ UNCHANGED <<value, wire, eof>>
  /\ UNCHANGED <<serverVars, earlierVars>>

InitCodec ==
  /\ ServerInit
  /\ EarlierIdle
  /\ pc = "encode"
  /\ value \in Values
  /\ wire = <<>>
  /\ eof = TRUE
  /\ result = NoResult

NextCodec ==
  \/ CodecEncode
  \/ CodecDecode

\* Every value encoded, and the bytes decoded.
SpecCodec == InitCodec /\ [][NextCodec]_vars

(***************************************************************************)
(* C11: For every value, decoding the bytes encode wrote for it returns    *)
(* that value, with no byte left over.                                     *)
(***************************************************************************)
C11_RoundTrip ==
  pc = "done" => result = DecOk(value, <<>>)

\* Some text holds a line feed.
HasLF(t) == \E i \in 1..Len(t) : t[i] = LF

\* A SimpleString or an Error with a line feed in its text is in v.
RECURSIVE LFInLine(_)
LFInLine(v) ==
  \/ v.tag \in {"SimpleString", "Error"} /\ HasLF(v.str)
  \/ v.tag = "Array" /\ \E i \in 1..Len(v.items) : LFInLine(v.items[i])

\* The round trip of the values with no line feed in a SimpleString or an
\* Error.
RoundTripNoLF ==
  (pc = "done" /\ ~LFInLine(value)) => result = DecOk(value, <<>>)

\* The decimal numerals of the numbers the values hold.
Decimal(n) ==
  CASE n \in 0..9 -> <<Digits[n + 1]>>
    [] n = -1 -> <<"-", "1">>
    [] n = -12 -> <<"-", "1", "2">>
    [] n = 123456789 -> <<"1", "2", "3", "4", "5", "6", "7", "8", "9">>

\* Where the bytes lit end when w holds them from position at on, 0 when w
\* does not (or at is 0 already).
After(w, at, lit) ==
  IF at > 0 /\ at + Len(lit) - 1 <= Len(w)
       /\ SubSeq(w, at, at + Len(lit) - 1) = lit
  THEN at + Len(lit)
  ELSE 0

\* Where the wire form of v ends when w holds it from position at on, 0 when
\* w does not: the grammar of the wire format, read off the bytes.
RECURSIVE GrammarEnd(_, _, _)
RECURSIVE ItemsEnd(_, _, _, _)
ItemsEnd(items, i, w, at) ==
  IF i > Len(items) THEN at
  ELSE ItemsEnd(items, i + 1, w, GrammarEnd(items[i], w, at))

GrammarEnd(v, w, at) ==
  CASE v.tag = "Array" ->
         ItemsEnd(v.items, 1, w,
                  After(w, at, <<"*">> \o Decimal(Len(v.items)) \o <<CR, LF>>))
    [] v.tag = "BulkString" ->
         After(w, After(w, After(w, at, <<"$">> \o Decimal(Len(v.str)) \o <<CR, LF>>),
                        v.str), <<CR, LF>>)
    [] v.tag = "Error" -> After(w, at, <<"-">> \o v.str \o <<CR, LF>>)
    [] v.tag = "Integer" -> After(w, at, <<":">> \o Decimal(v.int) \o <<CR, LF>>)
    [] v.tag = "SimpleString" -> After(w, at, <<"+">> \o v.str \o <<CR, LF>>)
    [] v.tag = "Null" -> After(w, at, <<"$", "-", "1", CR, LF>>)
    [] v.tag = "NullArray" -> After(w, at, <<"*", "-", "1", CR, LF>>)

DeclaredSizes == {-2, -1, 0, 1, 2, 536870912, 536870913}

\* tag, the decimal of n, CR LF
Header(tag, n) == <<tag>> \o ToDec(n) \o <<CR, LF>>

\* What follows a header: nothing, payloads of 0, 1 and 2 bytes with and
\* without their CR LF, payloads holding CR and LF, values one after the
\* other, a value that fails to decode, a nested array, bytes left over.
Tails ==
  { <<>>,
    <<CR, LF>>,
    <<"a", CR, LF>>,
    <<"a", "b", CR, LF>>,
    <<CR, LF, CR, LF, ":", "1", CR, LF>>,
    <<LF, CR, LF, "+", "b", CR, LF>>,
    <<"a", "b", "x", "y">>,
    <<"a", "x", "y", CR, LF>>,
    <<":", "1", CR, LF>>,
    <<":", "1", CR, LF, ":", "2", CR, LF>>,
    <<":", "1", CR, LF, ":", "2", CR, LF, "+", "b", CR, LF>>,
    <<":", "1", CR, LF, "?", "x", CR, LF>>,
    <<"*", "1", CR, LF, "+", "a", CR, LF, ":", "2", CR, LF, "+", "b", CR, LF>>,
    <<"$", "1", CR, LF, "a", CR, LF, "*", "-", "1", CR, LF>> }

\* First lines of every shape: empty, shorter than three bytes, without CR,
\* cut before LF, with each tag, with an unknown tag, with a bad payload.
Lines ==
  { <<>>, <<LF>>, <<"a">>, <<"a", LF>>, <<"?", LF>>, <<CR, LF>>, <<"+", LF>>,
    <<"+", CR, LF>>, <<"+", "a", LF>>, <<"+", "a">>, <<"+", "a", "b">>,
    <<"+", "a", CR>>, <<"+", "a", CR, LF>>, <<"?", "a", CR, LF>>,
    <<"*", "x", LF>>, <<"$", "1", LF, "a", CR, LF>>,
    <<"-", "a", " ", CR, LF, "x">>, <<":", "x", CR, LF>>, <<":", "7", CR, LF>>,
    <<":", "-", "1", "2", CR, LF, ":", "1", CR, LF>>,
    <<"+", BAD_BYTE, CR, LF>>, <<"$", "x", CR, LF>>, <<"*", CR, LF>> }

Streams ==
  {Header(tag, n) \o tail : tag \in {"*", "$"}, n \in DeclaredSizes, tail \in Tails}
    \cup Lines

InitDecode ==
  /\ ServerInit
  /\ EarlierIdle
  /\ pc = "decode"
  /\ value = Null
  /\ wire \in Streams
  /\ eof \in BOOLEAN
  /\ result = NoResult

NextDecode == CodecDecode

\* Every stream decoded, with and without the end of the stream after it.
SpecDecode == InitDecode /\ [][NextDecode]_vars

\* The null sentinel of a tag, and its empty value.
NullOf(tag) == IF tag = "*" THEN NullArray ELSE Null
EmptyOf(tag) == IF tag = "*" THEN Array(<<>>) ELSE BulkString(<<>>)

(***************************************************************************)
(* C14: For a header of the Array or the BulkString tag declaring size n:  *)
(* n = -1 returns the tag's null; n < -1 or n > 536870912 fails with       *)
(* InvalidData with every byte after the header left unread; n from 0 to   *)
(* 536870912 is not refused; and n = 0 returns the empty Array, or the     *)
(* empty BulkString once its CR LF is there, never a null.                 *)
(***************************************************************************)
C14_DeclaredSize ==
  pc = "done" =>
    \A tag \in {"*", "$"} : \A n \in DeclaredSizes : \A tail \in Tails :
      wire = Header(tag, n) \o tail =>
        /\ n = -1 => result = DecOk(NullOf(tag), tail)
        /\ (n < -1 \/ n > 536870912) =>
             /\ result.kind = "InvalidData"
             /\ result.rest = tail
        /\ (0 <= n /\ n <= 536870912) =>
             /\ result.kind # "InvalidData"
             /\ result.kind = "Ok" => result.data \notin {Null, NullArray}
        /\ (n = 0 /\ tag = "*") => result = DecOk(EmptyOf(tag), tail)
        /\ (n = 0 /\ tag = "$" /\ Len(tail) >= 2 /\ SubSeq(tail, 1, 2) = <<CR, LF>>) =>
             result = DecOk(EmptyOf(tag), SubSeqFrom(tail, 3))

\* A bulk string declaring 536870912 bytes was not refused: the read of its
\* payload met the end of the stream.
C14_Witness ==
  /\ pc = "done"
  /\ eof
  /\ wire = Header("$", 536870912) \o <<"a", CR, LF>>
  /\ result.kind = "UnexpectedEof"

\* The bytes read_until(LF) puts in the buffer: up to and with the first LF,
\* or all of them when the stream ends before one.
LineRead(w) ==
  IF \E k \in 1..Len(w) : w[k] = LF
  THEN SubSeq(w, 1, CHOOSE k \in 1..Len(w) : w[k] = LF /\ \A j \in 1..(k - 1) : w[j] # LF)
  ELSE w

\* read_until returns: an LF arrived, or the stream ended.
LineReturned == eof \/ \E k \in 1..Len(wire) : wire[k] = LF

(***************************************************************************)
(* C15: The line read at the start of a frame is classified in order: no   *)
(* byte read is BrokenPipe; else fewer than three bytes is InvalidInput    *)
(* (too short); else last two bytes other than CR LF is InvalidInput (bad  *)
(* CRLF), a line cut by the end of the stream included; only a line that   *)
(* passes all three has its first byte taken as the type tag.              *)
(***************************************************************************)
C15_LineChecks ==
  (pc = "done" /\ LineReturned) =>
    LET line == LineRead(wire)
        len == Len(line)
    IN  IF len = 0
          THEN result.kind = "BrokenPipe"
        ELSE IF len < 3
          THEN /\ result.kind = "InvalidInput"
               /\ result.msg[1] = "Input is too short: "
        ELSE IF <<line[len - 1], line[len]>> # <<CR, LF>>
          THEN /\ result.kind = "InvalidInput"
               /\ result.msg[1] = "Invalid CRLF: "
        ELSE /\ line[1] # "*" =>
                  /\ result.kind # "BrokenPipe"
                  /\ result.kind \in ErrorKinds =>
                       result.msg[1] # "Input is too short: "
             /\ line[1] \notin {"*", "$", "-", ":", "+"} =>
                  /\ result.kind = "InvalidInput"
                  /\ result.msg[1] = "Unknown head character: Ok(\""
             /\ (line[1] = "+" /\ BAD_BYTE \notin {line[k] : k \in 1..len}) =>
                  result = DecOk(SimpleString(SubSeq(line, 2, len - 2)),
                                 SubSeqFrom(wire, len + 1))
             /\ (line[1] = "-" /\ BAD_BYTE \notin {line[k] : k \in 1..len}) =>
                  result = DecOk(Error(SubSeq(line, 2, len - 2)),
                                 SubSeqFrom(wire, len + 1))
             /\ line[1] = ":" => result.kind \in {"Ok", "InvalidData"}

\* A line with no CR before its LF was refused for its CR LF before its
\* first byte was looked at; the stream had more bytes after it.
C15_Witness ==
  /\ pc = "done"
  /\ wire = <<"$", "1", LF, "a", CR, LF>>
  /\ result.kind = "InvalidInput"
  /\ result.msg[1] = "Invalid CRLF: "

\* The result of decoding the k-th value of those that follow one another in
\* stream s, the values before it having decoded; the bytes after the k-th.
RECURSIVE RestAfter(_, _)
ItemResult(s, k) == decode(RestAfter(s, k - 1), eof)
RestAfter(s, k) == IF k = 0 THEN s ELSE ItemResult(s, k).rest

(***************************************************************************)
(* C16: Decoding an Array header of count n >= 0 decodes the next n values *)
(* of the stream one after the other and returns them in that order as the *)
(* Array's items, leaving every byte after the n-th in the stream; when    *)
(* one of them fails, the Array decode fails with that error.              *)
(***************************************************************************)
C16_ArrayItems ==
  pc = "done" =>
    \A n \in {0, 1, 2} : \A tail \in Tails :
      wire = Header("*", n) \o tail =>
        IF \A k \in 1..n : ItemResult(tail, k).kind = "Ok"
        THEN /\ result.kind = "Ok"
             /\ result.data.tag = "Array"
             /\ Len(result.data.items) = n
             /\ \A k \in 1..n : result.data.items[k] = ItemResult(tail, k).data
             /\ result.rest = RestAfter(tail, n)
        ELSE LET bad == CHOOSE k \in 1..n :
                          /\ ItemResult(tail, k).kind # "Ok"
                          /\ \A j \in 1..(k - 1) : ItemResult(tail, j).kind = "Ok"
             IN  /\ result.kind = ItemResult(tail, bad).kind
                 /\ result.msg = ItemResult(tail, bad).msg

\* A two-item array was decoded whose first item is itself an array, and
\* the value after the second item was left in the stream.
C16_Witness ==
  /\ pc = "done"
  /\ wire = Header("*", 2)
              \o <<"*", "1", CR, LF, "+", "a", CR, LF, ":", "2", CR, LF, "+", "b", CR, LF>>
  /\ result = DecOk(Array(<<Array(<<SimpleString(<<"a">>)>>), Integer(2)>>),
                    <<"+", "b", CR, LF>>)

(***************************************************************************)
(* C17: Decoding a BulkString header of length n >= 0 takes the n + 2      *)
(* bytes after the header: it fails with InvalidInput unless the last two  *)
(* are CR LF, and otherwise returns the first n as the payload, whatever   *)
(* CR or LF they hold, leaving the bytes after the n + 2 in the stream.    *)
(***************************************************************************)
C17_BulkStringPayload ==
  pc = "done" =>
    \A n \in {0, 1, 2} : \A tail \in Tails :
      (wire = Header("$", n) \o tail /\ Len(tail) >= n + 2) =>
        IF SubSeq(tail, n + 1, n + 2) # <<CR, LF>>
        THEN result.kind = "InvalidInput"
        ELSE result = DecOk(BulkString(SubSeq(tail, 1, n)), SubSeqFrom(tail, n + 3))

\* A payload that is CR LF itself was returned, and the frame after it was
\* left in the stream.
C17_Witness ==
  /\ pc = "done"
  /\ wire = Header("$", 2) \o <<CR, LF, CR, LF, ":", "1", CR, LF>>
  /\ result = DecOk(BulkString(<<CR, LF>>), <<":", "1", CR, LF>>)

(***************************************************************************)
(* parse_command on its own: a value is parsed once.                       *)
(***************************************************************************)
\* First tokens: the verbs, verbs in lower and mixed case, a longer word,
\* another word, the empty token.
Verbs ==
  { <<"G", "E", "T">>, <<"S", "E", "T">>, <<"R", "E", "M">>, <<"g", "e", "t">>,
    <<"S", "e", "t">>, <<"G", "E", "T", "S">>, <<"P", "O", "P">>, <<>> }

\* The tokens after the first: none to three, an empty one among them where
\* two spaces follow each other or the text ends with a space.
ArgLists ==
  { <<>>, <<<<"a">>>>, <<<<"a">>, <<"x">>>>, <<<<"a">>, <<"x">>, <<"y">>>>,
    <<<<>>>>, <<<<>>, <<"a">>>>, <<<<"a">>, <<>>>>, <<<<"G", "E", "T">>, <<"a">>>> }

\* The tokens with one space between each two.
RECURSIVE Join(_)
Join(tokens) ==
  IF Len(tokens) = 1 THEN tokens[1]
  ELSE tokens[1] \o <<" ">> \o Join(Tail(tokens))

\* Values that are no bulk string.
NotBulk ==
  { SimpleString(<<"G", "E", "T", " ", "a">>), Error(<<"G", "E", "T", " ", "a">>),
    Integer(7), Null, NullArray, Array(<<>>),
    Array(<<BulkString(<<"G", "E", "T", " ", "a">>)>>) }

ParseInputs ==
  {BulkString(Join(<<verb>> \o args)) : verb \in Verbs, args \in ArgLists}
    \cup NotBulk

\* parse_command(&value)
ParseStep ==
  /\ pc = "parse"
  /\ result' = parse_command(value)
  /\ pc' = "done"
  /\ UNCHANGED <<value, wire, eof>>
  /\ UNCHANGED <<serverVars, earlierVars>>

InitParse ==
  /\ ServerInit
  /\ EarlierIdle
  /\ pc = "parse"
  /\ value \in ParseInputs
  /\ wire = <<>>
  /\ eof = FALSE
  /\ result = NoResult

NextParse == ParseStep

\* Every input parsed.
SpecParse == InitParse /\ [][NextParse]_vars

\* The message for a verb given n tokens where it takes expected.
ArgCountMessage(verb, expected, n) ==
  <<"Cannot parse ">> \o verb
    \o <<" command arguments: Wrong number of arguments. Expected ">>
    \o Decimal(expected) \o <<", got ">> \o Decimal(n) \o <<".">>

(***************************************************************************)
(* C19: parse_command succeeds exactly on a BulkString whose text split on *)
(* single spaces is GET k, REM k or SET k v, verb in upper case, giving    *)
(* that command; a value that is no BulkString fails with "data is not a   *)
(* bulk string"; another first token, lower case and empty included, fails *)
(* with "Command not found: " and the token; a verb with another number of *)
(* tokens after it fails with the expected and the actual count.           *)
(***************************************************************************)
C19_ParseCommand ==
  pc = "done" =>
    /\ value \in NotBulk =>
         result = ParseErr(<<"Cannot parse command: data is not a bulk string">>)
    /\ \A verb \in Verbs : \A args \in ArgLists :
         value = BulkString(Join(<<verb>> \o args)) =>
           LET n == Len(args)
           IN  CASE verb = <<"G", "E", "T">> ->
                      IF n = 1
                      THEN result = ParseOk(Command(<<"G", "E", "T">>, args[1], <<>>))
                      ELSE result = ParseErr(ArgCountMessage(verb, 1, n))
                 [] verb = <<"R", "E", "M">> ->
                      IF n = 1
                      THEN result = ParseOk(Command(<<"R", "E", "M">>, args[1], <<>>))
                      ELSE result = ParseErr(ArgCountMessage(verb, 1, n))
                 [] verb = <<"S", "E", "T">> ->
                      IF n = 2
                      THEN result = ParseOk(Command(<<"S", "E", "T">>, args[1], args[2]))
                      ELSE result = ParseErr(ArgCountMessage(verb, 2, n))
                 [] OTHER ->
                      result = ParseErr(<<"Command not found: ">> \o verb)

\* "SET  a", with two spaces, was parsed as SET of the empty key to a.
C19_Witness ==
  /\ pc = "done"
  /\ value = BulkString(<<"S", "E", "T", " ", " ", "a">>)
  /\ result = ParseOk(Command(<<"S", "E", "T">>, <<>>, <<"a">>))

(***************************************************************************)
(* The commands on their own: parsed commands are executed one after the   *)
(* other on one Nest.                                                      *)
(***************************************************************************)
\* Commands executed in one run.
MaxCommands == 4

\* GET, SET and REM on two keys, with two values.
StoreInputs ==
  { BulkString(<<"G", "E", "T", " ", "a">>), BulkString(<<"G", "E", "T", " ", "b">>),
    BulkString(<<"S", "E", "T", " ", "a", " ", "x">>),
    BulkString(<<"S", "E", "T", " ", "a", " ", "y">>),
    BulkString(<<"S", "E", "T", " ", "b", " ", "x">>),
    BulkString(<<"R", "E", "M", " ", "a">>), BulkString(<<"R", "E", "M", " ", "b">>) }

\* parse_command(&content) succeeds and the command is executed on the Nest
StoreExecute(content) ==
  /\ pc = "execute"
  /\ Len(log) < MaxCommands
  /\ LET p == parse_command(content)
         r == execute(p.cmd, nest)
     IN  /\ p.ok
         /\ nest' = r.nest
         /\ log' = Append(log, [id |-> 0, content |-> content, data |-> r.data])
  /\ UNCHANGED <<acceptor, conn, peer, inbuf, output, outbuf, queue, reply,
                 engine, input, eoutput, sent, arrived, frames>>
  /\ UNCHANGED <<pureVars, earlierVars>>

InitStore ==
  /\ ServerInit
  /\ EarlierIdle
  /\ pc = "execute"
  /\ value = Null
  /\ wire = <<>>
  /\ eof = FALSE
  /\ result = NoResult

NextStore == \E content \in StoreInputs : StoreExecute(content)

\* Every sequence of up to MaxCommands commands executed on an empty Nest.
SpecStore == InitStore /\ [][NextStore]_vars

\* The SETs and REMs on the key of the m-th command among the commands
\* before it.
WritesBefore(m) ==
  {i \in 1..(m - 1) : /\ LogCmd(i).cmd.name \in {SET, REM}
                      /\ LogCmd(i).cmd.key = LogCmd(m).cmd.key}

\* The greatest number of a non-empty set of numbers.
Latest(S) == CHOOSE i \in S : \A j \in S : j <= i

(***************************************************************************)
(* C12: After any sequence of parsed commands, GET k returns               *)
(* BulkString(v) when the latest SET or REM on k before it was SET k v,    *)
(* and Null when k was never set or the latest such command was REM k.     *)
(***************************************************************************)
C12_GetLatest ==
  \A m \in 1..Len(log) :
    LogCmd(m).cmd.name = GET =>
      IF WritesBefore(m) = {} THEN log[m].data = Null
      ELSE LET w == LogCmd(Latest(WritesBefore(m))).cmd
           IN  IF w.name = SET THEN log[m].data = BulkString(w.value)
               ELSE log[m].data = Null

\* A key was set, removed and set to another value, and GET returned the
\* second value.
C12_Witness ==
  /\ pc = "execute"
  /\ Len(log) = 4
  /\ log[1].content = BulkString(<<"S", "E", "T", " ", "a", " ", "x">>)
  /\ log[2].content = BulkString(<<"R", "E", "M", " ", "a">>)
  /\ log[3].content = BulkString(<<"S", "E", "T", " ", "a", " ", "y">>)
  /\ log[4].content = BulkString(<<"G", "E", "T", " ", "a">>)
  /\ log[4].data = BulkString(<<"y">>)

\* The step executes REM on key k.
RemStep(k) ==
  /\ pc = "execute"
  /\ Len(log') = Len(log) + 1
  /\ log'[Len(log')].content = BulkString(<<"R", "E", "M", " ">> \o k)

(***************************************************************************)
(* C13: REM k returns SimpleString("OK") whether k is present or not;      *)
(* after it k is absent and GET k returns Null; the other keys keep their  *)
(* values; when k was absent the Nest is unchanged, and a second REM k     *)
(* leaves the Nest as the first left it.                                   *)
(***************************************************************************)
C13_RemIdempotent ==
  [][\A k \in {<<"a">>, <<"b">>} :
       RemStep(k) =>
         /\ log'[Len(log')].data = SimpleString(<<"O", "K">>)
         /\ ~NestGet(nest', k).some
         /\ GetExecute(Command(GET, k, <<>>), nest').data = Null
         /\ \A other \in {<<"a">>, <<"b">>} \ {k} :
              NestGet(nest', other) = NestGet(nest, other)
         /\ ~NestGet(nest, k).some => nest' = nest
         /\ RemExecute(Command(REM, k, <<>>), nest').nest = nest']_vars

\* Both keys were set, one was removed twice, and the other is still there.
C13_Witness ==
  /\ pc = "execute"
  /\ Len(log) = 4
  /\ log[1].content = BulkString(<<"S", "E", "T", " ", "a", " ", "x">>)
  /\ log[2].content = BulkString(<<"S", "E", "T", " ", "b", " ", "x">>)
  /\ log[3].content = BulkString(<<"R", "E", "M", " ", "a">>)
  /\ log[4].content = BulkString(<<"R", "E", "M", " ", "a">>)
  /\ log[3].data = OK /\ log[4].data = OK
  /\ ~NestGet(nest, <<"a">>).some
  /\ NestGet(nest, <<"b">>).some

(***************************************************************************)
(* C20: A request that parses is never answered with an Error: GET gives a *)
(* BulkString or Null, SET and REM give SimpleString("OK"); and every      *)
(* Error written to a peer answers a frame that failed to decode or a      *)
(* request that failed to parse.                                           *)
(***************************************************************************)
C20_ErrorsOnlyFromFailures ==
  /\ \A i \in 1..Len(log) :
       ~Malformed(log[i].content) =>
         /\ log[i].data.tag # "Error"
         /\ LogCmd(i).cmd.name = GET => log[i].data.tag \in {"BulkString", "Null"}
         /\ LogCmd(i).cmd.name \in {SET, REM} => log[i].data = SimpleString(<<"O", "K">>)
  /\ \A c \in Conns : \A i \in 1..Len(outbuf[c]) :
       Head(outbuf[c][i]) = "-" =>
         \/ AnswerableOf(c)[i].kind = "error"
         \/ /\ AnswerableOf(c)[i].kind = "request"
            /\ Malformed(AnswerableOf(c)[i].data)

\* A connection was answered an Error for a request that failed to parse,
\* then Null for a GET of a key that is not there.
C20_Witness ==
  \E c \in Conns :
    /\ Len(log) = 2 /\ log[1].id = c /\ log[2].id = c
    /\ Malformed(log[1].content)
    /\ ~Malformed(log[2].content) /\ LogCmd(2).cmd.name = GET
    /\ Len(outbuf[c]) = 2
    /\ Head(outbuf[c][1]) = "-"
    /\ outbuf[c][2] = <<"$", "-", "1", CR, LF>>


(***************************************************************************)
(* run_engine: the Engine with an output channel, the thread that made it  *)
(* and holds the two handles init() returned.                              *)
(***************************************************************************)
\* The requests a client may send: INSERT, GET and POP from two ids.
EngineCommands ==
  { Command(INSERT, <<"a">>, <<"x">>), Command(INSERT, <<"a">>, <<"y">>),
    Command(GET, <<"a">>, <<>>), Command(POP, <<"a">>, <<>>),
    Command(GET, <<"b">>, <<>>) }

NoMessage == Message(0, Command(<<>>, <<>>, <<>>))
NoOutput == Message(0, NoEgg)

\* What run_engine returns: the text of ok_or, the errors of recv and send.
NotInitialized == [kind |-> "Err", msg |-> <<"Sparrow engine is not initialized">>]
RecvError == [kind |-> "Err", msg |-> <<"RecvError">>]
SendError == [kind |-> "Err", msg |-> <<"SendError">>]

\* The variables of the server's sockets, as they are when no socket is used.
NetIdle ==
  /\ acceptor = "bind"
  /\ conn = [c \in Conns |-> "none"]
  /\ peer = [c \in Conns |-> "absent"]
  /\ inbuf = [c \in Conns |-> <<>>]
  /\ output = [c \in Conns |-> Null]
  /\ outbuf = [c \in Conns |-> <<>>]
  /\ reply = [c \in Conns |-> <<>>]
  /\ frames = [c \in Conns |-> <<>>]

\* Engine::new(): an empty Nest, no channel; run_engine is not called yet.
InitEngine ==
  /\ NetIdle
  /\ EarlierIdle
  /\ queue = <<>>
  /\ engine = "new"
  /\ input = NoMessage
  /\ eoutput = NoOutput
  /\ nest = NestNew
  /\ sent = 0
  /\ arrived = <<>>
  /\ log = <<>>
  /\ pc = "engine"
  /\ value = Null
  /\ wire = <<>>
  /\ eof = FALSE
  /\ result = NoResult

\* Engine::init: the two channels are created, the Engine keeps the request
\* receiver and the output sender, the caller gets the other two ends.
EngineInit ==
  /\ pc = "engine"
  /\ engine = "new"
  /\ ~fields.receiver
  /\ fields' = [receiver |-> TRUE, sender |-> TRUE]
  /\ input_sender' = "alive"
  /\ output_receiver' = "alive"
  /\ UNCHANGED <<outputs, max_connections, mioVars, available_ids, socket_id>>
  /\ UNCHANGED <<serverVars, pureVars>>

\* run_engine(engine) is called: the Engine moves into it.
RunEngineCall ==
  /\ pc = "engine"
  /\ engine = "new"
  /\ engine' = "loop"
  /\ UNCHANGED <<acceptor, conn, peer, inbuf, output, outbuf, queue, reply,
                 input, eoutput, nest, sent, arrived, log, frames>>
  /\ UNCHANGED <<pureVars, earlierVars>>

\* a run_engine that returns Ok when the Engine has no receiver
RunEngineUninitOk ==
  /\ pc = "engine"
  /\ engine = "loop"
  /\ ~fields.receiver
  /\ engine' = "stopped"
  /\ result' = [kind |-> "Ok"]
  /\ UNCHANGED <<acceptor, conn, peer, inbuf, output, outbuf, queue, reply,
                 input, eoutput, nest, sent, arrived, log, frames>>
  /\ UNCHANGED <<pc, value, wire, eof>>
  /\ UNCHANGED earlierVars

\* engine.receiver.as_ref().ok_or("Sparrow engine is not initialized")?
\* returns the error
RunEngineUninit ==
  /\ pc = "engine"
  /\ engine = "loop"
  /\ ~fields.receiver
  /\ engine' = "stopped"
  /\ result' = NotInitialized
  /\ UNCHANGED <<acceptor, conn, peer, inbuf, output, outbuf, queue, reply,
                 input, eoutput, nest, sent, arrived, log, frames>>
  /\ UNCHANGED <<pc, value, wire, eof>>
  /\ UNCHANGED earlierVars

\* receiver.recv()? returns the next request
RunEngineRecv ==
  /\ pc \in {"engine", "http", "mio"}
  /\ engine = "loop"
  /\ fields.receiver
  /\ queue # <<>>
  /\ input' = Head(queue)
  /\ queue' = Tail(queue)
  /\ engine' = "process"
  /\ UNCHANGED <<acceptor, conn, peer, inbuf, output, outbuf, reply,
                 eoutput, nest, sent, arrived, log, frames>>
  /\ UNCHANGED <<pureVars, earlierVars>>

\* receiver.recv()? fails: the channel is empty and its sender is dropped
RunEngineRecvFail ==
  /\ pc = "engine"
  /\ engine = "loop"
  /\ fields.receiver
  /\ queue = <<>>
  /\ input_sender = "dropped"
  /\ engine' = "stopped"
  /\ result' = RecvError
  /\ UNCHANGED <<acceptor, conn, peer, inbuf, output, outbuf, queue, reply,
                 input, eoutput, nest, sent, arrived, log, frames>>
  /\ UNCHANGED <<pc, value, wire, eof>>
  /\ UNCHANGED earlierVars

\* engine.process(input)
RunEngineProcess ==
  /\ pc \in {"engine", "http", "mio"}
  /\ engine = "process"
  /\ LET r == EngineProcessMessage(input, nest)
     IN  /\ nest' = r.nest
         /\ eoutput' = r.output
         /\ log' = Append(log, [id |-> input.id, content |-> input.content,
                                data |-> r.output.content])
  /\ engine' = "send"
  /\ UNCHANGED <<acceptor, conn, peer, inbuf, output, outbuf, queue, reply,
                 input, sent, arrived, frames>>
  /\ UNCHANGED <<pureVars, earlierVars>>

\* sender.send(output)? succeeds.  (engine.sender is Some whenever
\* engine.receiver is: init sets both.)
RunEngineSend ==
  /\ pc \in {"engine", "mio"}
  /\ engine = "send"
  /\ fields.sender
  /\ output_receiver = "alive"
  /\ outputs' = Append(outputs, eoutput)
  /\ engine' = "loop"
  /\ input' = NoMessage
  /\ UNCHANGED <<acceptor, conn, peer, inbuf, output, outbuf, queue, reply,
                 eoutput, nest, sent, arrived, log, frames>>
  /\ UNCHANGED <<fields, input_sender, output_receiver, max_connections,
                 mioVars, available_ids, socket_id>>
  /\ UNCHANGED pureVars

\* sender.send(output)? fails: the output receiver is dropped
RunEngineSendFail ==
  /\ pc = "engine"
  /\ engine = "send"
  /\ fields.sender
  /\ output_receiver = "dropped"
  /\ engine' = "stopped"
  /\ result' = SendError
  /\ UNCHANGED <<acceptor, conn, peer, inbuf, output, outbuf, queue, reply,
                 input, eoutput, nest, sent, arrived, log, frames>>
  /\ UNCHANGED <<pc, value, wire, eof>>
  /\ UNCHANGED earlierVars

\* The caller of init: sender.send(EngineInput::new(id, cmd)) while the
\* Engine, which holds the receiver, is alive
ClientSend(id, cmd) ==
  /\ pc = "engine"
  /\ input_sender = "alive"
  /\ engine # "stopped"
  /\ sent < MaxFrames
  /\ sent' = sent + 1
  /\ queue' = Append(queue, Message(id, cmd))
  /\ arrived' = Append(arrived, Message(id, cmd))
  /\ UNCHANGED <<acceptor, conn, peer, inbuf, output, outbuf, reply, engine,
                 input, eoutput, nest, log, frames>>
  /\ UNCHANGED <<pureVars, earlierVars>>

\* receiver.recv() of the caller returns the next output
ClientRecv ==
  /\ pc = "engine"
  /\ output_receiver = "alive"
  /\ outputs # <<>>
  /\ outputs' = Tail(outputs)
  /\ UNCHANGED <<fields, input_sender, output_receiver, max_connections,
                 mioVars, available_ids, socket_id>>
  /\ UNCHANGED <<serverVars, pureVars>>

\* The caller drops its request sender, its output receiver.
ClientDropSender ==
  /\ pc = "engine"
  /\ input_sender = "alive"
  /\ input_sender' = "dropped"
  /\ UNCHANGED <<fields, outputs, output_receiver, max_connections, mioVars,
                 available_ids, socket_id>>
  /\ UNCHANGED <<serverVars, pureVars>>

ClientDropReceiver ==
  /\ pc = "engine"
  /\ output_receiver = "alive"
  /\ output_receiver' = "dropped"
  /\ UNCHANGED <<fields, outputs, input_sender, max_connections, mioVars,
                 available_ids, socket_id>>
  /\ UNCHANGED <<serverVars, pureVars>>

NextEngine ==
  \/ EngineInit
  \/ RunEngineCall
  \/ RunEngineUninit
  \/ RunEngineRecv
  \/ RunEngineRecvFail
  \/ RunEngineProcess
  \/ RunEngineSend
  \/ RunEngineSendFail
  \/ \E id \in Conns : \E cmd \in EngineCommands : ClientSend(id, cmd)
  \/ ClientRecv
  \/ ClientDropSender
  \/ ClientDropReceiver

\* The Engine with an output channel, initialized or not, and its caller.
SpecEngine == InitEngine /\ [][NextEngine]_vars


(***************************************************************************)
(* C21: Every request put on the Engine's queue is taken off it and        *)
(* handled once: the requests handled are the first arrivals, each once    *)
(* and in arrival order, the queue holds the arrivals not yet taken and    *)
(* never gets one back; a request is logged as handled only by the step    *)
(* that processes the request the Engine holds, and the one step that      *)
(* leaves the send position is the one attempt to send its reply, which    *)
(* either adds that reply to the request's channel or fails.               *)
(***************************************************************************)
C21_Accounting ==
  LET n == Len(log)
      held == IF engine = "process" THEN 1 ELSE 0
  IN  /\ n + held + Len(queue) = Len(arrived)
      /\ \A i \in 1..n : /\ log[i].id = arrived[i].id
                         /\ log[i].content = arrived[i].content
      /\ queue = SubSeqFrom(arrived, n + held + 1)
      /\ engine = "process" => input = arrived[n + 1]
      /\ engine = "send" => input = arrived[n]

C21_Steps ==
  /\ log' # log =>
       /\ engine = "process" /\ engine' = "send"
       /\ log' = Append(log, [id |-> input.id, content |-> input.content,
                              data |-> eoutput'])
  /\ queue' # queue =>
       \/ /\ queue # <<>>
          /\ queue' = Tail(queue) /\ input' = Head(queue) /\ arrived' = arrived
       \/ /\ Len(arrived') = Len(arrived) + 1
          /\ queue' = Append(queue, arrived'[Len(arrived')])
  /\ (engine = "send" /\ engine' # "send") =>
       \/ /\ engine' = "recv"
          /\ reply' = [reply EXCEPT ![input.sender] = Append(@, eoutput)]
       \/ /\ engine' = "stopped"
          /\ ~ReplyOpen(input.sender)
          /\ reply' = reply
  /\ ~(engine = "send" /\ engine' # "send") =>
       \A c \in Conns : Len(reply'[c]) <= Len(reply[c])

C21_HandledOnce == []C21_Accounting /\ [][C21_Steps]_vars

\* Two requests were handled, one rejected by parsing and one executed, both
\* replies were sent and the queue is empty.
C21_Witness ==
  /\ Len(arrived) = 2
  /\ Len(log) = 2
  /\ \E i, j \in 1..2 : log[i].data.tag = "Error" /\ log[j].data = OK
  /\ engine = "recv"
  /\ queue = <<>>


(***************************************************************************)
(* C22: In every reachable state the Nest holds at most one Egg for each   *)
(* key and the Egg stored under key k has key field k; a SET k v executed  *)
(* while k is present leaves the other keys as they were and exactly one   *)
(* Egg for k, whose value is v, and a GET of k then returns v.             *)
(***************************************************************************)
\* The Eggs in the Nest whose key field is k.
EggsOf(n, k) == {j \in DOMAIN n : n[j].key = k}

C22_Store ==
  \A k \in DOMAIN nest :
    /\ nest[k].key = k
    /\ Cardinality(EggsOf(nest, k)) = 1

C22_SetStep ==
  (Len(log') = Len(log) + 1
     /\ parse_command(log'[Len(log')].content).cmd.name = SET) =>
    LET cmd == parse_command(log'[Len(log')].content).cmd
    IN  cmd.key \in DOMAIN nest =>
          /\ DOMAIN nest' = DOMAIN nest
          /\ \A j \in DOMAIN nest \ {cmd.key} : nest'[j] = nest[j]
          /\ Cardinality(EggsOf(nest', cmd.key)) = 1
          /\ nest'[cmd.key] = Egg(cmd.key, cmd.value)
          /\ GetExecute(Command(GET, cmd.key, <<>>), nest').data
               = BulkString(cmd.value)

C22_OneRecordPerKey == []C22_Store /\ [][C22_SetStep]_vars

\* Key a was set to x and then to y while key b was present, and the Nest
\* holds y for a.
C22_Witness ==
  /\ pc = "execute"
  /\ Len(log) = 3
  /\ log[1].content = BulkString(<<"S", "E", "T", " ", "a", " ", "x">>)
  /\ log[2].content = BulkString(<<"S", "E", "T", " ", "b", " ", "x">>)
  /\ log[3].content = BulkString(<<"S", "E", "T", " ", "a", " ", "y">>)
  /\ nest[<<"a">>] = Egg(<<"a">>, <<"y">>)
  /\ DOMAIN nest = {<<"a">>, <<"b">>}


(***************************************************************************)
(* C23: The running Engine has no terminal state of its own: from the send *)
(* position it goes back to waiting on the request queue, whatever the     *)
(* request was, and it stops only from the waiting position, when the      *)
(* queue is empty and no producer is left.                                 *)
(***************************************************************************)
C23_NoTerminalState ==
  [][/\ (engine = "send" /\ engine' # "send") => engine' = "recv"
     /\ (engine # "stopped" /\ engine' = "stopped") =>
          (engine = "recv" /\ queue = <<>> /\ ~ProducerAlive)]_vars


(***************************************************************************)
(* What the channel Engine's histories say                                 *)
(***************************************************************************)
\* The Nest after the first n of reqs are executed one after the other on an
\* empty Nest, and the Option<Egg> the i-th of them returns.
RECURSIVE ReplayCommands(_, _)
ReplayCommands(reqs, n) ==
  IF n = 0 THEN NestNew
  ELSE CommandExecute(reqs[n].content, ReplayCommands(reqs, n - 1)).nest

ReplayEgg(reqs, i) ==
  CommandExecute(reqs[i].content, ReplayCommands(reqs, i - 1)).egg

\* How many outputs the Engine has put on the output channel, and how many
\* of them its caller has received.
Emitted ==
  Len(log) - (IF engine = "send" \/ result = SendError THEN 1 ELSE 0)

Received == Emitted - Len(outputs)

(***************************************************************************)
(* C24: The output the Engine emits for a request has the id of that       *)
(* request, and the outputs are emitted in the order the requests were     *)
(* dequeued, which is the order they were sent in: the i-th output ever    *)
(* emitted has the id of the i-th request and holds its result.  So when   *)
(* all but the last request sent have had their output received, the next  *)
(* output received is the output of that last request.                     *)
(***************************************************************************)
C24_OutputOfRequest ==
  /\ \A i \in 1..Len(log) : /\ log[i].id = arrived[i].id
                            /\ log[i].content = arrived[i].content
  /\ engine = "send" => eoutput = Message(input.id, ReplayEgg(arrived, Len(log)))
  /\ Received >= 0
  /\ \A j \in 1..Len(outputs) :
       outputs[j] = Message(arrived[Received + j].id,
                            ReplayEgg(arrived, Received + j))
  /\ (outputs # <<>> /\ Received + 1 = Len(arrived)) =>
       Head(outputs) = Message(arrived[Len(arrived)].id,
                               ReplayEgg(arrived, Len(arrived)))

\* Requests of two ids were sent; the output of the first was received and
\* the outputs of the other two, of different ids, wait on the channel, the
\* last one holding an Egg.
C24_Witness ==
  /\ pc = "engine"
  /\ Len(arrived) = 3
  /\ Received = 1
  /\ Len(outputs) = 2
  /\ outputs[1].id # outputs[2].id
  /\ outputs[2].content.some


\* The INSERTs and POPs of the key of the m-th executed command among the
\* commands executed before it, and the last of them.
ChangesBefore(m) ==
  {j \in 1..(m - 1) : /\ log[j].content.name \in {INSERT, POP}
                      /\ log[j].content.key = log[m].content.key}

LastChange(m) == CHOOSE j \in ChangesBefore(m) : \A l \in ChangesBefore(m) : l <= j

\* The Egg the key of the m-th executed command holds when it is executed,
\* as the commands before it tell.
HeldBefore(m) ==
  IF ChangesBefore(m) = {} \/ log[LastChange(m)].content.name = POP THEN NoEgg
  ELSE SomeEgg(Egg(log[m].content.key, log[LastChange(m)].content.value))

(***************************************************************************)
(* C25: An insert returns None when the Egg's key was absent and the Egg   *)
(* stored before when the key was present, and in both cases the Nest then *)
(* holds the new Egg under that key.                                       *)
(***************************************************************************)
C25_InsertReturns ==
  /\ \A m \in 1..Len(log) :
       log[m].content.name = INSERT => log[m].data = HeldBefore(m)
  /\ (log # <<>> /\ log[Len(log)].content.name = INSERT) =>
       LET cmd == log[Len(log)].content
       IN  /\ cmd.key \in DOMAIN nest
           /\ nest[cmd.key] = Egg(cmd.key, cmd.value)

\* A key was inserted with x and then with y: the first insert returned None,
\* the second the Egg holding x, and the Nest holds y.
C25_Witness ==
  /\ pc = "engine"
  /\ Len(log) = 2
  /\ log[1].content = Command(INSERT, <<"a">>, <<"x">>)
  /\ log[2].content = Command(INSERT, <<"a">>, <<"y">>)
  /\ log[1].data = NoEgg
  /\ log[2].data = SomeEgg(Egg(<<"a">>, <<"x">>))
  /\ nest[<<"a">>] = Egg(<<"a">>, <<"y">>)

(***************************************************************************)
(* C26: A pop of a present key returns the stored Egg and removes it, so a *)
(* pop or a get of the same key right after it returns None; a pop of an   *)
(* absent key returns None and leaves the Nest as it was.                  *)
(***************************************************************************)
C26_Log ==
  /\ \A m \in 1..Len(log) :
       log[m].content.name = POP =>
         /\ log[m].data = HeldBefore(m)
         /\ (m < Len(log) /\ log[m + 1].content.name \in {POP, GET}
               /\ log[m + 1].content.key = log[m].content.key) =>
              log[m + 1].data = NoEgg
  /\ (log # <<>> /\ log[Len(log)].content.name = POP) =>
       log[Len(log)].content.key \notin DOMAIN nest

C26_PopStep ==
  (Len(log') = Len(log) + 1 /\ log'[Len(log')].content.name = POP) =>
    LET key == log'[Len(log')].content.key
    IN  /\ key \notin DOMAIN nest =>
              nest' = nest /\ log'[Len(log')].data = NoEgg
        /\ key \in DOMAIN nest =>
              /\ log'[Len(log')].data = SomeEgg(nest[key])
              /\ DOMAIN nest' = DOMAIN nest \ {key}
        /\ \A k \in DOMAIN nest \ {key} : k \in DOMAIN nest' /\ nest'[k] = nest[k]

C26_PopReturns == []C26_Log /\ [][C26_PopStep]_vars

\* A key was inserted and popped twice: the first pop returned the Egg, the
\* second None, and the Nest is empty.
C26_Witness ==
  /\ pc = "engine"
  /\ Len(log) = 3
  /\ log[1].content = Command(INSERT, <<"a">>, <<"y">>)
  /\ log[2].content = Command(POP, <<"a">>, <<>>)
  /\ log[3].content = Command(POP, <<"a">>, <<>>)
  /\ log[2].data = SomeEgg(Egg(<<"a">>, <<"y">>))
  /\ log[3].data = NoEgg
  /\ nest = NestNew


(***************************************************************************)
(* C27: run_engine on an Engine whose init() was not called returns the    *)
(* error "Sparrow engine is not initialized": its only step is that return,*)
(* no request was received or processed and the Nest is untouched.  After  *)
(* init(), while the request queue is empty and its sender is alive,       *)
(* run_engine stays waiting on the queue.                                  *)
(***************************************************************************)
C27_Failed ==
  (engine = "stopped" /\ ~fields.receiver) =>
    /\ result = NotInitialized
    /\ input = NoMessage
    /\ log = <<>>
    /\ nest = NestNew
    /\ outputs = <<>>

C27_Steps ==
  /\ (engine = "loop" /\ ~fields.receiver /\ engine' # "loop") =>
       /\ engine' = "stopped"
       /\ result' = NotInitialized
       /\ UNCHANGED <<queue, input, eoutput, nest, log, outputs>>
  /\ (engine = "loop" /\ fields.receiver /\ queue = <<>>
        /\ input_sender = "alive") =>
       /\ engine' = "loop"
       /\ UNCHANGED <<input, eoutput, nest, log, result>>
       /\ Len(outputs') <= Len(outputs)

C27_NotInitialized == []C27_Failed /\ [][C27_Steps]_vars

\* run_engine was called on an Engine without channels and has returned the
\* error.
C27_Witness ==
  /\ pc = "engine"
  /\ engine = "stopped"
  /\ fields = [receiver |-> FALSE, sender |-> FALSE]
  /\ input_sender = "none"
  /\ result = NotInitialized


(***************************************************************************)
(* SparrowEngine::run: the Engine thread over the two shared queues, and   *)
(* the thread that pushes commands on the input queue.  Here queue is the  *)
(* input_queue and outputs the output_queue.  A lock fails only when a     *)
(* thread panicked while holding it, which no code using the queues does.  *)
(***************************************************************************)
NoCommand == Command(<<>>, <<>>, <<>>)

\* SparrowEngine::new on two empty queues; run is about to pop.
InitQueue ==
  /\ NetIdle
  /\ EarlierIdle
  /\ queue = <<>>
  /\ engine = "pop"
  /\ input = NoCommand
  /\ eoutput = ResultOk(NoEgg)
  /\ nest = NestNew
  /\ sent = 0
  /\ arrived = <<>>
  /\ log = <<>>
  /\ pc = "queue"
  /\ value = Null
  /\ wire = <<>>
  /\ eof = FALSE
  /\ result = NoResult

\* inputs.lock().unwrap().push_back(command)
QueuePush(cmd) ==
  /\ pc = "queue"
  /\ sent < MaxCommands
  /\ sent' = sent + 1
  /\ queue' = Append(queue, cmd)
  /\ arrived' = Append(arrived, cmd)
  /\ UNCHANGED <<acceptor, conn, peer, inbuf, output, outbuf, reply, engine,
                 input, eoutput, nest, log, frames>>
  /\ UNCHANGED <<pureVars, earlierVars>>

\* maybe_command = queue.pop_front() under the input lock returns a command.
\* (On an empty queue it returns None and the loop starts again.)
QueueRunPop ==
  /\ pc = "queue"
  /\ engine = "pop"
  /\ queue # <<>>
  /\ input' = Head(queue)
  /\ queue' = Tail(queue)
  /\ engine' = "execute"
  /\ UNCHANGED <<acceptor, conn, peer, inbuf, output, outbuf, reply,
                 eoutput, nest, sent, arrived, log, frames>>
  /\ UNCHANGED <<pureVars, earlierVars>>

\* let output = self.execute(command)
QueueRunExecute ==
  /\ pc = "queue"
  /\ engine = "execute"
  /\ LET r == SparrowEngineExecute(input, nest)
     IN  /\ nest' = r.nest
         /\ eoutput' = r.result
         /\ log' = Append(log, [id |-> 0, content |-> input, data |-> r.result])
  /\ engine' = "push"
  /\ UNCHANGED <<acceptor, conn, peer, inbuf, output, outbuf, queue, reply,
                 input, sent, arrived, frames>>
  /\ UNCHANGED <<pureVars, earlierVars>>

\* a run that leaves out the results that are errors
QueueRunPushOk ==
  /\ pc = "queue"
  /\ engine = "push"
  /\ outputs' = IF eoutput.ok THEN Append(outputs, eoutput) ELSE outputs
  /\ engine' = "pop"
  /\ input' = NoCommand
  /\ UNCHANGED <<acceptor, conn, peer, inbuf, output, outbuf, queue, reply,
                 eoutput, nest, sent, arrived, log, frames>>
  /\ UNCHANGED <<fields, input_sender, output_receiver, max_connections,
                 mioVars, available_ids, socket_id>>
  /\ UNCHANGED pureVars

\* queue.push_back(output) under the output lock
QueueRunPush ==
  /\ pc = "queue"
  /\ engine = "push"
  /\ outputs' = Append(outputs, eoutput)
  /\ engine' = "pop"
  /\ input' = NoCommand
  /\ UNCHANGED <<acceptor, conn, peer, inbuf, output, outbuf, queue, reply,
                 eoutput, nest, sent, arrived, log, frames>>
  /\ UNCHANGED <<fields, input_sender, output_receiver, max_connections,
                 mioVars, available_ids, socket_id>>
  /\ UNCHANGED pureVars

\* One step of run's loop.
QueueRun ==
  \/ QueueRunPop
  \/ QueueRunExecute
  \/ QueueRunPush

NextQueue ==
  \/ \E cmd \in EngineCommands : QueuePush(cmd)
  \/ QueueRun

\* The Engine thread and a thread pushing up to MaxCommands commands; the
\* Engine thread, once spawned, keeps being run.
SpecQueue == InitQueue /\ [][NextQueue]_vars /\ WF_vars(QueueRun)

\* The result the m-th executed command is due, as the commands before it
\* tell.
DueResult(m) ==
  IF log[m].content.name = INSERT THEN ResultOk(HeldBefore(m))
  ELSE IF HeldBefore(m).some THEN ResultOk(HeldBefore(m))
  ELSE ResultErr(log[m].content.key)

(***************************************************************************)
(* C28: Every command pushed on the input queue is eventually popped by    *)
(* run, in the order pushed, and its result is appended to the output      *)
(* queue in the order popped: the i-th output is the result of the i-th    *)
(* command pushed.  A GET or POP of an absent key gives an error result,   *)
(* which is one output entry like any other, and run goes on to the next   *)
(* command.                                                                *)
(***************************************************************************)
C28_Order ==
  /\ Len(log) + (IF engine = "execute" THEN 1 ELSE 0) + Len(queue) = Len(arrived)
  /\ \A i \in 1..Len(log) : /\ log[i].content = arrived[i]
                            /\ log[i].data = DueResult(i)
  /\ Len(outputs) = Len(log) - (IF engine = "push" THEN 1 ELSE 0)
  /\ \A i \in 1..Len(outputs) : outputs[i] = log[i].data

C28_EveryCommandAnswered ==
  /\ []C28_Order
  /\ \A i \in 1..MaxCommands :
       (Len(arrived) >= i) ~> (Len(arrived) - Len(queue) >= i /\ Len(outputs) >= i)

\* Four commands were pushed and answered; a GET of an absent key gave an
\* error entry and the commands after it were executed.
C28_Witness ==
  /\ pc = "queue"
  /\ Len(outputs) = 4
  /\ arrived[1] = Command(GET, <<"a">>, <<>>)
  /\ outputs[1] = ResultErr(<<"a">>)
  /\ outputs[2] = ResultOk(NoEgg)
  /\ outputs[3].ok /\ outputs[3].egg.some
  /\ ~outputs[4].ok


(***************************************************************************)
(* The HTTP server (net/tcp_server.rs): run_tcp_server makes one service   *)
(* per connection, handle_request and process_request answer each request, *)
(* and the Engine thread sends every output to all the readers of the bus. *)
(* Here conn[c] is "none", "idle" (alive, no request in flight), "wait"    *)
(* (process_request iterating on its reader) or "closed"; reply[c] is what *)
(* the reader of c's request holds; outbuf[c] the responses returned on c; *)
(* queue the Engine's request channel.                                     *)
(***************************************************************************)
\* What a client may send: a method, a path and a body.
HttpRequests ==
  { [method |-> "GET", path |-> "/", body |-> <<"I", "N", "S", "E", "R", "T", " ", "a", " ", "x">>],
    [method |-> "GET", path |-> "/", body |-> <<"G", "E", "T", " ", "a">>],
    [method |-> "GET", path |-> "/", body |-> <<"G", "E", "T">>],
    [method |-> "GET", path |-> "/x", body |-> <<"G", "E", "T", " ", "a">>],
    [method |-> "POST", path |-> "/", body |-> <<"G", "E", "T", " ", "a">>] }

\* A response: the status, and for a 200 the output it was built from.  seq
\* is not data of the program: it tells which request the Engine made the
\* output for, by its place in the order of arrival.
Response(status, out) == [status |-> status, out |-> out]
NoBusOutput == [id |-> None, content |-> NoEgg, seq |-> 0]

\* The connection is alive.
Alive(c) == conn[c] \in {"idle", "wait"}

\* run_tcp_server before the first connection: the ids 0..max_connections-1
\* in the queue, the Engine initialized and running.
InitHttp ==
  /\ acceptor = "accept"
  /\ conn = [c \in Conns |-> "none"]
  /\ peer = [c \in Conns |-> "absent"]
  /\ inbuf = [c \in Conns |-> <<>>]
  /\ output = [c \in Conns |-> Null]
  /\ outbuf = [c \in Conns |-> <<>>]
  /\ reply = [c \in Conns |-> <<>>]
  /\ frames = [c \in Conns |-> <<>>]
  /\ queue = <<>>
  /\ engine = "loop"
  /\ input = NoMessage
  /\ eoutput = NoOutput
  /\ nest = NestNew
  /\ sent = 0
  /\ arrived = <<>>
  /\ log = <<>>
  /\ pc = "http"
  /\ value = Null
  /\ wire = <<>>
  /\ eof = FALSE
  /\ result = NoResult
  /\ fields = [receiver |-> TRUE, sender |-> TRUE]
  /\ outputs = <<>>
  /\ input_sender = "alive"
  /\ output_receiver = "none"
  /\ max_connections \in 0..MaxConns
  /\ available_ids = [i \in 1..max_connections |-> i - 1]
  /\ socket_id = [c \in Conns |-> NoId]
  /\ unique_token = 0
  /\ connections = NoConnections

\* The closure given to make_service_fn, run for a new connection: the id is
\* popped from the front of the queue, the service is built with it, and the
\* id, if there was one, is pushed on the back of the queue.
HttpConnect(c) ==
  /\ pc = "http"
  /\ conn[c] = "none"
  /\ conn' = [conn EXCEPT ![c] = "idle"]
  /\ IF available_ids = <<>>
       THEN /\ socket_id' = [socket_id EXCEPT ![c] = None]
            /\ available_ids' = available_ids
       ELSE /\ socket_id' = [socket_id EXCEPT ![c] = Head(available_ids)]
            /\ available_ids' = Append(Tail(available_ids), Head(available_ids))
  /\ UNCHANGED <<acceptor, peer, inbuf, output, outbuf, queue, reply, engine,
                 input, eoutput, nest, sent, arrived, log, frames>>
  /\ UNCHANGED <<fields, outputs, input_sender, output_receiver,
                 max_connections, mioVars>>
  /\ UNCHANGED pureVars

\* The client ends the connection: its service, and the request in flight
\* with its reader, are dropped.  No code of run_tcp_server runs then.
HttpClose(c) ==
  /\ pc = "http"
  /\ Alive(c)
  /\ conn' = [conn EXCEPT ![c] = "closed"]
  /\ reply' = [reply EXCEPT ![c] = <<>>]
  /\ UNCHANGED <<acceptor, peer, inbuf, output, outbuf, queue, engine,
                 input, eoutput, nest, sent, arrived, log, frames>>
  /\ UNCHANGED <<pureVars, earlierVars>>

\* handle_request with socket_id None: 429, nothing else is done
HttpTooMany(c, req) ==
  /\ pc = "http"
  /\ conn[c] = "idle"
  /\ sent < MaxFrames
  /\ socket_id[c] = None
  /\ sent' = sent + 1
  /\ outbuf' = [outbuf EXCEPT ![c] = Append(@, Response(429, NoBusOutput))]
  /\ UNCHANGED <<acceptor, conn, peer, inbuf, output, queue, reply, engine,
                 input, eoutput, nest, arrived, log, frames>>
  /\ UNCHANGED <<pureVars, earlierVars>>

\* handle_request with an id, for anything but GET /: 404
HttpNotFound(c, req) ==
  /\ pc = "http"
  /\ conn[c] = "idle"
  /\ sent < MaxFrames
  /\ socket_id[c] # None
  /\ ~(req.method = "GET" /\ req.path = "/")
  /\ sent' = sent + 1
  /\ outbuf' = [outbuf EXCEPT ![c] = Append(@, Response(404, NoBusOutput))]
  /\ UNCHANGED <<acceptor, conn, peer, inbuf, output, queue, reply, engine,
                 input, eoutput, nest, arrived, log, frames>>
  /\ UNCHANGED <<pureVars, earlierVars>>

\* process_request when the body does not parse: handle_request answers
\* with the error's status, 400
HttpBadRequest(c, req) ==
  /\ pc = "http"
  /\ conn[c] = "idle"
  /\ sent < MaxFrames
  /\ socket_id[c] # None
  /\ req.method = "GET" /\ req.path = "/"
  /\ ~parse_engine_command(req.body).ok
  /\ sent' = sent + 1
  /\ outbuf' = [outbuf EXCEPT ![c] = Append(@, Response(400, NoBusOutput))]
  /\ UNCHANGED <<acceptor, conn, peer, inbuf, output, queue, reply, engine,
                 input, eoutput, nest, arrived, log, frames>>
  /\ UNCHANGED <<pureVars, earlierVars>>

\* The service's closure adds a reader to the bus; process_request parses
\* the body and sends EngineInput::new(socket_id, command), then iterates on
\* the reader.  (The send fails only when the Engine is gone, which it never
\* is here.)  arrived notes the connection next to the message.
HttpRequest(c, req) ==
  /\ pc = "http"
  /\ conn[c] = "idle"
  /\ sent < MaxFrames
  /\ socket_id[c] # None
  /\ req.method = "GET" /\ req.path = "/"
  /\ LET p == parse_engine_command(req.body)
     IN  /\ p.ok
         /\ queue' = Append(queue, Message(socket_id[c], p.cmd))
         /\ arrived' = Append(arrived, [id |-> socket_id[c], content |-> p.cmd,
                                        conn |-> c])
  /\ sent' = sent + 1
  /\ reply' = [reply EXCEPT ![c] = <<>>]
  /\ conn' = [conn EXCEPT ![c] = "wait"]
  /\ UNCHANGED <<acceptor, peer, inbuf, output, outbuf, engine,
                 input, eoutput, nest, log, frames>>
  /\ UNCHANGED <<pureVars, earlierVars>>

\* The Engine broadcasts the output on the bus: every reader there is gets
\* it.
BusBroadcast ==
  /\ pc = "http"
  /\ engine = "send"
  /\ reply' = [c \in Conns |->
                 IF conn[c] = "wait"
                   THEN Append(reply[c], [id |-> eoutput.id,
                                          content |-> eoutput.content,
                                          seq |-> Len(log)])
                   ELSE reply[c]]
  /\ engine' = "loop"
  /\ input' = NoMessage
  /\ UNCHANGED <<acceptor, conn, peer, inbuf, output, outbuf, queue,
                 eoutput, nest, sent, arrived, log, frames>>
  /\ UNCHANGED <<pureVars, earlierVars>>

\* process_request: the reader yields an output with the socket's id, which
\* becomes the 200 response; the reader is dropped
HttpRespond(c) ==
  /\ pc = "http"
  /\ conn[c] = "wait"
  /\ reply[c] # <<>>
  /\ Head(reply[c]).id = socket_id[c]
  /\ outbuf' = [outbuf EXCEPT ![c] = Append(@, Response(200, Head(reply[c])))]
  /\ reply' = [reply EXCEPT ![c] = <<>>]
  /\ conn' = [conn EXCEPT ![c] = "idle"]
  /\ UNCHANGED <<acceptor, peer, inbuf, output, queue, engine,
                 input, eoutput, nest, sent, arrived, log, frames>>
  /\ UNCHANGED <<pureVars, earlierVars>>

\* process_request: the reader yields an output with another id, which is
\* passed over
HttpSkip(c) ==
  /\ pc = "http"
  /\ conn[c] = "wait"
  /\ reply[c] # <<>>
  /\ Head(reply[c]).id # socket_id[c]
  /\ reply' = [reply EXCEPT ![c] = Tail(@)]
  /\ UNCHANGED <<acceptor, conn, peer, inbuf, output, outbuf, queue, engine,
                 input, eoutput, nest, sent, arrived, log, frames>>
  /\ UNCHANGED <<pureVars, earlierVars>>

NextHttp ==
  \/ \E c \in Conns : HttpConnect(c)
  \/ \E c \in Conns : HttpClose(c)
  \/ \E c \in Conns : \E req \in HttpRequests : HttpTooMany(c, req)
  \/ \E c \in Conns : \E req \in HttpRequests : HttpNotFound(c, req)
  \/ \E c \in Conns : \E req \in HttpRequests : HttpBadRequest(c, req)
  \/ \E c \in Conns : \E req \in HttpRequests : HttpRequest(c, req)
  \/ RunEngineRecv
  \/ RunEngineProcess
  \/ BusBroadcast
  \/ \E c \in Conns : HttpRespond(c)
  \/ \E c \in Conns : HttpSkip(c)

\* The HTTP server with its Engine thread, for every max_connections up to
\* the number of connections.
SpecHttp == InitHttp /\ [][NextHttp]_vars


\* The connections that are alive and were given an id.
Holders == {c \in Conns : Alive(c) /\ socket_id[c] \notin {NoId, None}}

\* The ids in the queue of available ids.
Available == {available_ids[i] : i \in 1..Len(available_ids)}

\* C29: in the HTTP server no two alive connections hold the same id, an id
\* held by an alive connection is not in the queue of available ids, at most
\* max_connections alive connections hold an id (a connection made when
\* that many are alive gets none), and a connection without an id is
\* answered 429 only and none of its requests reaches the Engine.
C29_UniqueSocketIds ==
  /\ \A c, d \in Holders : c # d => socket_id[c] # socket_id[d]
  /\ \A c \in Holders : socket_id[c] \notin Available
  /\ Cardinality(Holders) <= max_connections
  /\ \A c \in Conns :
       socket_id[c] = None =>
         /\ \A k \in 1..Len(outbuf[c]) : outbuf[c][k].status = 429
         /\ \A i \in 1..Len(arrived) : arrived[i].conn # c

\* The places in the order of arrival of the requests that connection c sent
\* to the Engine, among the first n.
RECURSIVE HttpRequestsOf(_, _)
HttpRequestsOf(c, n) ==
  IF n = 0 THEN <<>>
  ELSE IF arrived[n].conn = c THEN Append(HttpRequestsOf(c, n - 1), n)
       ELSE HttpRequestsOf(c, n - 1)

\* The outputs that the 200 responses returned on connection c were built
\* from, among the first n responses.
RECURSIVE Answers(_, _)
Answers(c, n) ==
  IF n = 0 THEN <<>>
  ELSE IF outbuf[c][n].status = 200 THEN Append(Answers(c, n - 1), outbuf[c][n].out)
       ELSE Answers(c, n - 1)

\* C30: in the HTTP server the k-th 200 response returned on a connection
\* carries the output the Engine made for the k-th command that connection
\* sent, with the connection's id: no connection is answered with the output
\* of another connection's command.
C30_OwnOutput ==
  \A c \in Conns :
    LET mine == HttpRequestsOf(c, Len(arrived))
        got == Answers(c, Len(outbuf[c]))
    IN  /\ Len(got) <= Len(mine)
        /\ \A k \in 1..Len(got) :
             /\ got[k].seq = mine[k]
             /\ got[k].id = socket_id[c]
             /\ got[k].content = ReplayEgg(arrived, mine[k])


\* The requests of connection c that are not answered to it yet: those on
\* the Engine's queue, the one the Engine holds, the replies on c's channel.
Outstanding(c) ==
  Len(SelectSeq(queue, LAMBDA r : r.id = c))
    + (IF engine \in {"process", "send"} /\ input.id = c THEN 1 ELSE 0)
    + Len(reply[c])

(***************************************************************************)
(* C32: A connection handler has at most one request outstanding: the      *)
(* requests of a connection on the queue, in the Engine and answered on    *)
(* its reply channel are one while the handler waits in recv and none at   *)
(* any other time, so the reply channel never holds more than one reply;   *)
(* the handler decodes a frame only with none outstanding; and the reply   *)
(* it receives is the Engine's result for the request it sent last.        *)
(***************************************************************************)
C32_OneOutstanding ==
  /\ [](\A c \in Conns :
          /\ Outstanding(c) = (IF conn[c] = "await" THEN 1 ELSE 0)
          /\ Len(reply[c]) <= 1)
  /\ [][\A c \in Conns :
          frames'[c] # frames[c] => Outstanding(c) = 0]_vars
  /\ [][\A c \in Conns :
          (conn[c] = "await" /\ conn'[c] # conn[c]) =>
            /\ Len(ProcessedOf(c)) = Len(RequestsOf(c))
            /\ ProcessedOf(c)[Len(ProcessedOf(c))].content
                 = RequestsOf(c)[Len(RequestsOf(c))].data
            /\ output'[c] = ProcessedOf(c)[Len(ProcessedOf(c))].data
            /\ reply'[c] = <<>>]_vars

\* A connection received the reply to its second request, which differs from
\* the reply to its first, while the other connection waits for its own.
C32_Witness ==
  \E c, d \in Conns :
    /\ c # d
    /\ conn[c] = "write"
    /\ Len(RequestsOf(c)) = 2 /\ Len(outbuf[c]) = 1
    /\ outbuf[c][1] # encode(output[c])
    /\ conn[d] = "await" /\ Outstanding(d) = 1


\* How many replies connection c has taken off its reply channel.
Taken(c) == Len(RequestsOf(c)) - (IF conn[c] = "await" THEN 1 ELSE 0)

(***************************************************************************)
(* C33: A reply goes only to the connection that issued the request: a     *)
(* reply is put on a connection's channel only by the Engine's send of the *)
(* result of that connection's request; the replies a connection has taken *)
(* and those waiting on its channel are, in order, the results of its own  *)
(* requests; the value it writes for a request is the result of that       *)
(* request; and each result is that of the request's own content on the    *)
(* Nest as the earlier requests left it.                                   *)
(***************************************************************************)
C33_ReplyToIssuer ==
  /\ [](\A c \in Conns :
          /\ Len(ProcessedOf(c)) - (IF engine = "send" /\ input.id = c THEN 1 ELSE 0)
               = Taken(c) + Len(reply[c])
          /\ \A k \in 1..Len(reply[c]) :
               reply[c][k] = ProcessedOf(c)[Taken(c) + k].data
          /\ (conn[c] = "write" /\ frames[c][Len(frames[c])].kind = "request") =>
               output[c] = ProcessedOf(c)[Taken(c)].data)
  /\ [](\A i \in 1..Len(log) :
          /\ log[i].content = arrived[i].content
          /\ log[i].data = process(log[i].content, ReplayNest(log, i - 1)).data)
  /\ [][\A c \in Conns :
          Len(reply'[c]) > Len(reply[c]) =>
            /\ engine = "send" /\ input.id = c /\ input.sender = c
            /\ log[Len(log)].id = c
            /\ reply'[c] = Append(reply[c], log[Len(log)].data)
            /\ \A d \in Conns \ {c} : reply'[d] = reply[d]]_vars

\* One connection set a key and another read it: each got the reply to its
\* own request, OK and the value.
C33_Witness ==
  \E c, d \in Conns :
    /\ c # d
    /\ Len(log) = 2 /\ log[1].id = c /\ log[2].id = d
    /\ outbuf[c] = <<encode(OK)>>
    /\ Len(outbuf[d]) = 1 /\ outbuf[d][1] = encode(log[2].data)
    /\ log[2].data.tag = "BulkString"


(***************************************************************************)
(* The server fed frames that are malformed after their first line.        *)
(***************************************************************************)
\* Two commands, a line with an unknown type tag, a bulk string whose
\* payload is longer than its declared size, and one whose payload is
\* shorter.
ResyncFrames ==
  { <<"$", "5", CR, LF, "G", "E", "T", " ", "a", CR, LF>>,
    <<"$", "7", CR, LF, "S", "E", "T", " ", "a", " ", "x", CR, LF>>,
    <<"?", CR, LF>>,
    <<"$", "3", CR, LF, "G", "E", "T", " ", "a", CR, LF>>,
    <<"$", "7", CR, LF, "G", "E", "T", " ", "a", CR, LF>> }

NextResync ==
  \/ ServerStep
  \/ \E c \in Conns : \E frame \in ResyncFrames : PeerSend(c, frame, MaxFramesShort)

SpecResync == Init /\ [][NextResync]_vars

\* The byte strings made of up to n whole frames.
RECURSIVE FrameRuns(_)
FrameRuns(n) ==
  IF n = 0 THEN {<<>>}
  ELSE LET shorter == FrameRuns(n - 1)
       IN  shorter \cup {r \o f : r \in shorter, f \in ResyncFrames}

\* How many frames the handlers of the connections 1..n have decoded, to a
\* request or to an error.
RECURSIVE AnsweredUpTo(_)
AnsweredUpTo(n) ==
  IF n = 0 THEN 0 ELSE AnsweredUpTo(n - 1) + Len(AnswerableOf(n))

(***************************************************************************)
(* C34: One malformed frame costs one Error reply and nothing more: the    *)
(* handlers never decode more frames than the peers have sent, and what a  *)
(* handler has not consumed yet is always a run of whole frames as the     *)
(* peer sent them, so that a decode never starts inside a frame and the    *)
(* next frame is decoded as sent.                                          *)
(***************************************************************************)
C34_OneErrorPerFrame ==
  /\ AnsweredUpTo(MaxConns) <= sent
  /\ \A c \in Conns : inbuf[c] \in FrameRuns(MaxFramesShort)


(***************************************************************************)
(* Two values encoded one after the other on one writer, and decoded by    *)
(* two calls of decode on one reader.                                      *)
(***************************************************************************)
\* The values of the pairs: scalars of every type, with CR LF and LF in
\* them, and arrays.
PipeValues ==
  { BulkString(<<>>), BulkString(<<"a", " ", "b">>), BulkString(<<CR, LF>>),
    BulkString(<<"$", "1">>), BulkString(<<"a", LF, "b">>),
    SimpleString(<<"O", "K">>), SimpleString(<<>>), SimpleString(<<"a", LF, "b">>),
    Error(<<"a">>), Error(<<CR>>), Integer(0), Integer(-12), Null, NullArray,
    Array(<<>>), Array(<<Null>>),
    Array(<<BulkString(<<CR, LF>>), Integer(7)>>),
    Array(<<Array(<<Integer(7), Null>>), BulkString(<<"a">>)>>),
    Array(<<SimpleString(<<"a">>), Array(<<Array(<<NullArray>>)>>)>>) }

InitPipe ==
  /\ ServerInit
  /\ EarlierIdle
  /\ pc = "encode"
  /\ value \in {<<v1, v2>> : v1, v2 \in PipeValues}
  /\ wire = <<>>
  /\ eof \in BOOLEAN
  /\ result = <<>>

\* encode(&v1, &mut writer); encode(&v2, &mut writer)
PipeEncode ==
  /\ pc = "encode"
  /\ wire' = encode(value[1]) \o encode(value[2])
  /\ pc' = "decode"
  /\ UNCHANGED <<value, eof, result>>
  /\ UNCHANGED <<serverVars, earlierVars>>

\* decode(&mut reader): the reader keeps what the call did not consume
PipeDecode ==
  /\ pc = "decode"
  /\ LET r == decode(wire, eof)
     IN  /\ result' = Append(result, r)
         /\ wire' = r.rest
  /\ pc' = IF Len(result) = 1 THEN "done" ELSE "decode"
  /\ UNCHANGED <<value, eof>>
  /\ UNCHANGED <<serverVars, earlierVars>>

NextPipe == PipeEncode \/ PipeDecode

SpecPipe == InitPipe /\ [][NextPipe]_vars

\* The encoding of v, alone on a reader, decodes to v and is consumed whole.
DecodesBack(v) ==
  LET r == decode(encode(v), TRUE)
  IN  r.kind = "Ok" /\ r.data = v /\ r.rest = <<>>

(***************************************************************************)
(* C35: decode consumes the bytes of one frame: for two values whose       *)
(* encodings each decode back to the value, the first decode of            *)
(* encode(v1) followed by encode(v2) returns v1 and leaves exactly         *)
(* encode(v2) in the reader, and the second returns v2 and leaves nothing. *)
(***************************************************************************)
C35_OneFramePerDecode ==
  (pc \in {"decode", "done"} /\ DecodesBack(value[1]) /\ DecodesBack(value[2])) =>
    /\ Len(result) >= 1 =>
         /\ result[1].kind = "Ok"
         /\ result[1].data = value[1]
         /\ result[1].rest = encode(value[2])
    /\ Len(result) = 2 =>
         /\ result[2].kind = "Ok"
         /\ result[2].data = value[2]
         /\ result[2].rest = <<>>
         /\ wire = <<>>

\* An array holding a bulk string with CR LF in it, then a bulk string that
\* looks like a header, were both decoded from the one stream.
C35_Witness ==
  /\ pc = "done"
  /\ value[1] = Array(<<BulkString(<<CR, LF>>), Integer(7)>>)
  /\ value[2] = BulkString(<<"$", "1">>)
  /\ DecodesBack(value[1]) /\ DecodesBack(value[2])
  /\ result[1].data = value[1] /\ result[2].data = value[2]


(***************************************************************************)
(* C36: Frame conditions of the commands: the execution of GET leaves the  *)
(* Nest as it was; the execution of SET k v or REM k leaves every key      *)
(* other than k as it was, present with the same Egg or absent.            *)
(***************************************************************************)
C36_FrameConditions ==
  [][(pc = "execute" /\ Len(log') = Len(log) + 1) =>
       LET cmd == parse_command(log'[Len(log')].content).cmd
       IN  /\ cmd.name = GET => nest' = nest
           /\ cmd.name \in {SET, REM} =>
                \A k \in ((DOMAIN nest) \cup (DOMAIN nest')) \ {cmd.key} :
                  /\ k \in DOMAIN nest
                  /\ k \in DOMAIN nest'
                  /\ nest'[k] = nest[k]]_vars

\* With both keys set, one key was set again and the other was read: it
\* still has its value, and the first has the new one.
C36_Witness ==
  /\ pc = "execute"
  /\ Len(log) = 4
  /\ log[1].content = BulkString(<<"S", "E", "T", " ", "b", " ", "x">>)
  /\ log[2].content = BulkString(<<"S", "E", "T", " ", "a", " ", "x">>)
  /\ log[3].content = BulkString(<<"S", "E", "T", " ", "a", " ", "y">>)
  /\ log[4].content = BulkString(<<"G", "E", "T", " ", "b">>)
  /\ log[4].data = BulkString(<<"x">>)
  /\ nest[<<"a">>].value = <<"y">>


(***************************************************************************)
(* The polling server (network/tcp_server.rs): handle_incoming_connections *)
(* polls the listener and the connections, handle_server_event accepts,    *)
(* handle_client_event reads a connection and sends its command to the     *)
(* Engine, handle_engine_outcomes writes the Engine's outputs.  Here       *)
(* conn[c] is "none", "backlog" (connected and not accepted yet), "open"   *)
(* (accepted) or "closed" (shut down by the server); inbuf[c] is what the  *)
(* client wrote and the server has not read; outbuf[c] what the server     *)
(* wrote to the client; acceptor the thread of handle_incoming_connections.*)
(* A write finds room in the socket's buffer: WouldBlock on a write is     *)
(* left out.                                                               *)
(***************************************************************************)
\* The token reserved for the listener.
SERVER == 0

\* a next_token that leaves the counter as it is
next_token_same(current) == [token |-> current, current |-> current]

\* utils::mio::next_token: the counter's value, and the counter afterwards
next_token(current) == [token |-> current, current |-> current + 1]

\* char::is_whitespace for the bytes of the model
Whitespace == {" ", "\t", CR, LF}

\* str::trim_end
RECURSIVE trim_end(_)
trim_end(s) ==
  IF s # <<>> /\ s[Len(s)] \in Whitespace
  THEN trim_end(SubSeq(s, 1, Len(s) - 1))
  ELSE s

\* What send_command does with the data read: Err(message), Ok(false) for
\* EXIT, or the command it sends and Ok(true).  commands::parse_command has
\* the text of parse_engine_command.
SendErr(msg) ==
  [ok |-> FALSE, alive |-> TRUE, send |-> FALSE,
   cmd |-> Command(<<>>, <<>>, <<>>), msg |-> msg]
SendOk(alive, send, cmd) ==
  [ok |-> TRUE, alive |-> alive, send |-> send, cmd |-> cmd, msg |-> <<>>]

\* a send_command for which EXIT keeps the connection
send_command_keep(data) ==
  IF \E i \in 1..Len(data) : data[i] = BAD_BYTE
  THEN SendErr(<<"invalid utf-8 sequence">>)
  ELSE LET p == parse_engine_command(trim_end(data))
       IN  IF ~p.ok THEN SendErr(p.msg)
           ELSE IF p.cmd.name = <<>>
             THEN SendOk(TRUE, FALSE, p.cmd)
           ELSE SendOk(TRUE, TRUE, p.cmd)

send_command(data) ==
  IF \E i \in 1..Len(data) : data[i] = BAD_BYTE
  THEN SendErr(<<"invalid utf-8 sequence">>)
  ELSE LET p == parse_engine_command(trim_end(data))
       IN  IF ~p.ok THEN SendErr(p.msg)
           ELSE IF p.cmd.name = <<>>
             THEN SendOk(FALSE, FALSE, p.cmd)
           ELSE SendOk(TRUE, TRUE, p.cmd)

\* What a client may write in one piece: commands, EXIT, an unknown verb, a
\* wrong argument count, invalid UTF-8.
MioData ==
  { <<"G", "E", "T", " ", "a", LF>>,
    <<"I", "N", "S", "E", "R", "T", " ", "a", " ", "x", CR, LF>>,
    <<"E", "X", "I", "T", LF>>,
    <<"T", "O", "T", "O", LF>>,
    <<"G", "E", "T", LF>>,
    <<BAD_BYTE, LF>> }

\* run_tcp_server with the listener registered and the two threads started,
\* and the Engine initialized and running.
InitMio ==
  /\ acceptor = "accept"
  /\ conn = [c \in Conns |-> "none"]
  /\ peer = [c \in Conns |-> "absent"]
  /\ inbuf = [c \in Conns |-> <<>>]
  /\ output = [c \in Conns |-> Null]
  /\ outbuf = [c \in Conns |-> <<>>]
  /\ reply = [c \in Conns |-> <<>>]
  /\ frames = [c \in Conns |-> <<>>]
  /\ queue = <<>>
  /\ engine = "loop"
  /\ input = NoMessage
  /\ eoutput = NoOutput
  /\ nest = NestNew
  /\ sent = 0
  /\ arrived = <<>>
  /\ log = <<>>
  /\ pc = "mio"
  /\ value = Null
  /\ wire = <<>>
  /\ eof = FALSE
  /\ result = NoResult
  /\ fields = [receiver |-> TRUE, sender |-> TRUE]
  /\ outputs = <<>>
  /\ input_sender = "alive"
  /\ output_receiver = "alive"
  /\ max_connections = 0
  /\ available_ids = <<>>
  /\ socket_id = [c \in Conns |-> NoId]
  /\ unique_token = SERVER + 1
  /\ connections = NoConnections

\* A client connects: the connection waits to be accepted.
MioConnect(c) ==
  /\ pc = "mio"
  /\ conn[c] = "none"
  /\ conn' = [conn EXCEPT ![c] = "backlog"]
  /\ peer' = [peer EXCEPT ![c] = "open"]
  /\ UNCHANGED <<acceptor, inbuf, output, outbuf, queue, reply, engine,
                 input, eoutput, nest, sent, arrived, log, frames>>
  /\ UNCHANGED <<pureVars, earlierVars>>

\* A client writes data.
MioClientSend(c, data) ==
  /\ pc = "mio"
  /\ peer[c] = "open"
  /\ conn[c] \in {"backlog", "open"}
  /\ sent < MaxFrames
  /\ sent' = sent + 1
  /\ inbuf' = [inbuf EXCEPT ![c] = @ \o data]
  /\ UNCHANGED <<acceptor, conn, peer, output, outbuf, queue, reply, engine,
                 input, eoutput, nest, arrived, log, frames>>
  /\ UNCHANGED <<pureVars, earlierVars>>

\* A client closes its end.
MioClientClose(c) ==
  /\ pc = "mio"
  /\ peer[c] = "open"
  /\ peer' = [peer EXCEPT ![c] = "closed"]
  /\ UNCHANGED <<acceptor, conn, inbuf, output, outbuf, queue, reply, engine,
                 input, eoutput, nest, sent, arrived, log, frames>>
  /\ UNCHANGED <<pureVars, earlierVars>>

\* The orders in which the connections of S can have arrived.
Orders(S) ==
  {o \in [1..Cardinality(S) -> S] :
     \A i, j \in 1..Cardinality(S) : i # j => o[i] # o[j]}

\* The loop of handle_server_event over the connections order[i..]: each
\* gets next_token(unique_token) and is inserted in the map under it.
RECURSIVE AcceptAll(_, _, _, _, _)
AcceptAll(order, i, current, map, ids) ==
  IF i > Len(order) THEN [current |-> current, map |-> map, ids |-> ids]
  ELSE LET n == next_token(current)
       IN  AcceptAll(order, i + 1, n.current,
                     [t \in (DOMAIN map) \cup {n.token} |->
                        IF t = n.token THEN order[i] ELSE map[t]],
                     [ids EXCEPT ![order[i]] = n.token])

\* handle_server_event: server.accept() until WouldBlock
HandleServerEvent ==
  /\ pc = "mio"
  /\ acceptor = "accept"
  /\ \E c \in Conns : conn[c] = "backlog"
  /\ \E order \in Orders({c \in Conns : conn[c] = "backlog"}) :
       LET r == AcceptAll(order, 1, unique_token, connections, socket_id)
       IN  /\ unique_token' = r.current
           /\ connections' = r.map
           /\ socket_id' = r.ids
  /\ conn' = [c \in Conns |-> IF conn[c] = "backlog" THEN "open" ELSE conn[c]]
  /\ UNCHANGED <<acceptor, peer, inbuf, output, outbuf, queue, reply, engine,
                 input, eoutput, nest, sent, arrived, log, frames>>
  /\ UNCHANGED <<fields, outputs, input_sender, output_receiver,
                 max_connections, available_ids>>
  /\ UNCHANGED pureVars

\* server.accept() fails with another error than WouldBlock:
\* handle_incoming_connections returns it and its thread ends
HandleServerEventFail ==
  /\ pc = "mio"
  /\ acceptor = "accept"
  /\ acceptor' = "failed"
  /\ UNCHANGED <<conn, peer, inbuf, output, outbuf, queue, reply, engine,
                 input, eoutput, nest, sent, arrived, log, frames>>
  /\ UNCHANGED <<pureVars, earlierVars>>

\* The token connection c is in the map under.
TokenOf(c) == CHOOSE t \in DOMAIN connections : connections[t] = c

\* handle_client_event for a readable event of c, with data to read:
\* read_connection returns all of it, send_command parses it; a command goes
\* to the Engine with the token, an error is written to the client, and
\* for EXIT the connection is removed from the map and shut down.
HandleClientData(c) ==
  /\ pc = "mio"
  /\ acceptor = "accept"
  /\ \E t \in DOMAIN connections : connections[t] = c
  /\ inbuf[c] # <<>>
  /\ LET r == send_command(inbuf[c])
         token == TokenOf(c)
     IN  /\ inbuf' = [inbuf EXCEPT ![c] = <<>>]
         /\ IF r.send
              THEN /\ queue' = Append(queue, Message(token, r.cmd))
                   /\ arrived' = Append(arrived, Message(token, r.cmd))
              ELSE UNCHANGED <<queue, arrived>>
         /\ outbuf' = IF r.ok THEN outbuf
                      ELSE [outbuf EXCEPT ![c] = Append(@, r.msg)]
         /\ IF r.alive
              THEN UNCHANGED <<conn, connections>>
              ELSE /\ connections' =
                        [t \in (DOMAIN connections) \ {token} |-> connections[t]]
                   /\ conn' = [conn EXCEPT ![c] = "closed"]
  /\ UNCHANGED <<acceptor, peer, output, reply, engine,
                 input, eoutput, nest, sent, log, frames>>
  /\ UNCHANGED <<fields, outputs, input_sender, output_receiver,
                 max_connections, available_ids, socket_id, unique_token>>
  /\ UNCHANGED pureVars

\* handle_client_event for a readable event of c with nothing to read and
\* the client's end closed: read returns 0, the connection is removed from
\* the map and shut down
HandleClientEof(c) ==
  /\ pc = "mio"
  /\ acceptor = "accept"
  /\ \E t \in DOMAIN connections : connections[t] = c
  /\ inbuf[c] = <<>>
  /\ peer[c] = "closed"
  /\ connections' =
       [t \in (DOMAIN connections) \ {TokenOf(c)} |-> connections[t]]
  /\ conn' = [conn EXCEPT ![c] = "closed"]
  /\ UNCHANGED <<acceptor, peer, inbuf, output, outbuf, queue, reply, engine,
                 input, eoutput, nest, sent, arrived, log, frames>>
  /\ UNCHANGED <<fields, outputs, input_sender, output_receiver,
                 max_connections, available_ids, socket_id, unique_token>>
  /\ UNCHANGED pureVars

\* handle_engine_outcomes: the next output is received and, when its id is
\* a token of the map, written to that connection as format!("{:?}\n")
HandleEngineOutcome ==
  /\ pc = "mio"
  /\ outputs # <<>>
  /\ outputs' = Tail(outputs)
  /\ LET out == Head(outputs)
     IN  outbuf' = IF out.id \in DOMAIN connections
                   THEN [outbuf EXCEPT ![connections[out.id]] =
                           Append(@, <<out.content>>)]
                   ELSE outbuf
  /\ UNCHANGED <<acceptor, conn, peer, inbuf, output, queue, reply, engine,
                 input, eoutput, nest, sent, arrived, log, frames>>
  /\ UNCHANGED <<fields, input_sender, output_receiver, max_connections,
                 mioVars, available_ids, socket_id>>
  /\ UNCHANGED pureVars

NextMio ==
  \/ \E c \in Conns : MioConnect(c)
  \/ \E c \in Conns : \E data \in MioData : MioClientSend(c, data)
  \/ \E c \in Conns : MioClientClose(c)
  \/ HandleServerEvent
  \/ HandleServerEventFail
  \/ \E c \in Conns : HandleClientData(c)
  \/ \E c \in Conns : HandleClientEof(c)
  \/ RunEngineRecv
  \/ RunEngineProcess
  \/ RunEngineSend
  \/ HandleEngineOutcome

\* The polling server with its Engine and its clients.
SpecMio == InitMio /\ [][NextMio]_vars


\* Connection c is in the map.
InMap(c) == \E t \in DOMAIN connections : connections[t] = c

Accepted == {c \in Conns : socket_id[c] # NoId}

(***************************************************************************)
(* C37: The tokens given to the accepted connections are pairwise          *)
(* distinct and none is the SERVER token: every token is greater than      *)
(* SERVER and less than the counter, the counter is SERVER + 1 plus the    *)
(* number of connections accepted, a connection in the map is there under  *)
(* its own token, and the connections accepted in one step get the values  *)
(* from the counter's value before the step up to the one before its value *)
(* after.                                                                  *)
(***************************************************************************)
C37_UniqueTokens ==
  /\ [](pc = "mio" =>
          /\ \A c \in Accepted :
               socket_id[c] # SERVER /\ socket_id[c] > SERVER
                 /\ socket_id[c] < unique_token
          /\ \A c, d \in Accepted : c # d => socket_id[c] # socket_id[d]
          /\ unique_token = SERVER + 1 + Cardinality(Accepted)
          /\ SERVER \notin DOMAIN connections
          /\ \A t \in DOMAIN connections : socket_id[connections[t]] = t)
  /\ [][(pc = "mio" /\ socket_id' # socket_id) =>
          {socket_id'[c] : c \in {d \in Conns : socket_id'[d] # socket_id[d]}}
            = unique_token..(unique_token' - 1)]_vars

\* Two connections were accepted in one call, the second before the first.
C37_Witness ==
  /\ pc = "mio"
  /\ socket_id[1] = SERVER + 2
  /\ socket_id[2] = SERVER + 1
  /\ unique_token = SERVER + 3
  /\ connections[SERVER + 1] = 2 /\ connections[SERVER + 2] = 1

====
